---------------------------- MODULE Spec2Model ----------------------------
(***************************************************************************)
(* Access-control core of the DevKit Platform API: the session-token      *)
(* codec and permission table of AuthService, the requireAuth /           *)
(* requirePermission middleware, and the user routes they gate, over the  *)
(* in-memory user store.                                                  *)
(*                                                                         *)
(* JavaScript strings that the code takes apart (tokens, headers, ids)    *)
(* are sequences of one-character strings; strings the code only compares *)
(* (emails, names, roles, permissions, messages) are atomic.  An optional *)
(* property of a JavaScript object is a record field that is present or   *)
(* absent.                                                                 *)
(***************************************************************************)
EXTENDS Integers, Sequences, FiniteSets, TLC

(***************************************************************************)
(* Bounds of the model.                                                    *)
(***************************************************************************)
MaxBodyLen == 3
MaxIdLen == 2

(***************************************************************************)
(* String primitives used by the code.                                     *)
(***************************************************************************)
\* variant: only the length of the prefix is checked
startsWithLengthOnly(s, p) == Len(s) >= Len(p)

startsWith(s, p) == Len(s) >= Len(p) /\ SubSeq(s, 1, Len(p)) = p

slice(s, n) == IF n >= Len(s) THEN <<>> ELSE SubSeq(s, n + 1, Len(s))

\* variant: String.prototype.indexOf, the first occurrence
indexOf(s, c) ==
    IF \E i \in 1..Len(s) : s[i] = c
    THEN (CHOOSE i \in 1..Len(s) :
              s[i] = c /\ \A j \in 1..(i - 1) : s[j] # c) - 1
    ELSE -1

\* 0-based index of the last occurrence of character c, -1 when absent
lastIndexOf(s, c) ==
    IF \E i \in 1..Len(s) : s[i] = c
    THEN (CHOOSE i \in 1..Len(s) :
              s[i] = c /\ \A j \in (i + 1)..Len(s) : s[j] # c) - 1
    ELSE -1

\* String.prototype.substring(from, to), 0 <= from <= to <= length
substring(s, from, to) == IF to <= from THEN <<>> ELSE SubSeq(s, from + 1, to)

\* String.prototype.substring(from)
substringFrom(s, from) == slice(s, from)

Rep(c, n) == [i \in 1..n |-> c]

\* all strings over alphabet A of length 0..n
RECURSIVE Strings(_, _)
Strings(A, n) ==
    IF n = 0 THEN {<<>>}
    ELSE LET shorter == Strings(A, n - 1)
         IN  shorter \cup {Append(s, c) : s \in shorter, c \in A}

(***************************************************************************)
(* Configuration of the auth service.                                      *)
(***************************************************************************)
TOKEN_PREFIX == <<"s","e","s","s","i","o","n","_">>

\* variant: member is also granted manage:users
PERMISSIONS_MemberManagesUsers ==
    [admin  |-> <<"read", "write", "delete", "manage:users",
                  "manage:projects", "manage:api-keys">>,
     member |-> <<"read", "write", "manage:users", "manage:projects",
                  "manage:api-keys">>,
     viewer |-> <<"read">>]

\* own properties of the PERMISSIONS object literal
PERMISSIONS ==
    [admin  |-> <<"read", "write", "delete", "manage:users",
                  "manage:projects", "manage:api-keys">>,
     member |-> <<"read", "write", "manage:projects", "manage:api-keys">>,
     viewer |-> <<"read">>]

\* properties every object literal inherits from Object.prototype
ObjectPrototypeKeys ==
    {"constructor", "__proto__", "toString", "toLocaleString", "valueOf",
     "hasOwnProperty", "isPrototypeOf", "propertyIsEnumerable"}

\* PERMISSIONS[role]: property lookup on the object literal
PermissionsLookup(role) ==
    IF role \in DOMAIN PERMISSIONS
    THEN [kind |-> "array", items |-> PERMISSIONS[role]]
    ELSE IF role \in ObjectPrototypeKeys
    THEN [kind |-> "inherited", key |-> role]
    ELSE [kind |-> "undefined"]

\* PERMISSIONS[role] || []
PermissionsOrEmpty(role) ==
    IF PermissionsLookup(role).kind = "undefined"
    THEN [kind |-> "array", items |-> <<>>]
    ELSE PermissionsLookup(role)

includes(arr, x) == \E i \in 1..Len(arr) : arr[i] = x

(***************************************************************************)
(* AuthService                                                             *)
(***************************************************************************)
\* the values uuidv4() draws from: xxxxxxxx-xxxx-4xxx-yxxx-xxxxxxxxxxxx
UuidHex == {"0", "f"}
UuidVariant == {"a"}
uuidv4 ==
    {Rep(h, 8) \o <<"-">> \o Rep(h, 4) \o <<"-", "4">> \o Rep(h, 3)
        \o <<"-", y>> \o Rep(h, 3) \o <<"-">> \o Rep(h, 12) :
     h \in UuidHex, y \in UuidVariant}

generateSessionToken(userId, sessionId) ==
    TOKEN_PREFIX \o userId \o <<"_">> \o sessionId

\* the prefix-stripped body and its split on the last underscore
tokenBodyOf(token) == slice(token, Len(TOKEN_PREFIX))
parsedUserId(token) ==
    substring(tokenBodyOf(token), 0, lastIndexOf(tokenBodyOf(token), "_"))
\* variant: the separator is kept in the session id
parsedSessionIdKeepsSeparator(token) ==
    substringFrom(tokenBodyOf(token), lastIndexOf(tokenBodyOf(token), "_"))
parsedSessionId(token) ==
    substringFrom(tokenBodyOf(token), lastIndexOf(tokenBodyOf(token), "_") + 1)

\* variant: the result of the user lookup is not checked
validateTokenNoUserCheck(token, store) ==
    IF token = <<>> \/ ~startsWith(token, TOKEN_PREFIX)
    THEN [valid |-> FALSE, error |-> "Invalid token format"]
    ELSE LET tokenBody == tokenBodyOf(token)
             lastUnderscoreIndex == lastIndexOf(tokenBody, "_")
         IN  IF lastUnderscoreIndex = -1
             THEN [valid |-> FALSE, error |-> "Malformed token"]
             ELSE LET userId == parsedUserId(token)
                      sessionId == parsedSessionId(token)
                  IN  IF userId = <<>> \/ sessionId = <<>>
                      THEN [valid |-> FALSE, error |-> "Malformed token"]
                      ELSE [valid |-> TRUE,
                            context |-> [userId |-> userId,
                                         user |-> IF userId \in DOMAIN store
                                                  THEN store[userId]
                                                  ELSE [id |-> userId],
                                         sessionId |-> sessionId]]

\* variant: empty id and session parts are not rejected
validateTokenNoEmptyCheck(token, store) ==
    IF token = <<>> \/ ~startsWith(token, TOKEN_PREFIX)
    THEN [valid |-> FALSE, error |-> "Invalid token format"]
    ELSE LET tokenBody == tokenBodyOf(token)
             lastUnderscoreIndex == lastIndexOf(tokenBody, "_")
         IN  IF lastUnderscoreIndex = -1
             THEN [valid |-> FALSE, error |-> "Malformed token"]
             ELSE LET userId == parsedUserId(token)
                      sessionId == parsedSessionId(token)
                  IN  IF userId \notin DOMAIN store
                      THEN [valid |-> FALSE, error |-> "User not found"]
                      ELSE [valid |-> TRUE,
                            context |-> [userId |-> store[userId].id,
                                         user |-> store[userId],
                                         sessionId |-> sessionId]]

\* variant: the user is looked up under the whole token body
validateTokenLookupBody(token, store) ==
    IF token = <<>> \/ ~startsWith(token, TOKEN_PREFIX)
    THEN [valid |-> FALSE, error |-> "Invalid token format"]
    ELSE LET tokenBody == tokenBodyOf(token)
             lastUnderscoreIndex == lastIndexOf(tokenBody, "_")
         IN  IF lastUnderscoreIndex = -1
             THEN [valid |-> FALSE, error |-> "Malformed token"]
             ELSE LET userId == parsedUserId(token)
                      sessionId == parsedSessionId(token)
                  IN  IF userId = <<>> \/ sessionId = <<>>
                      THEN [valid |-> FALSE, error |-> "Malformed token"]
                      ELSE IF tokenBody \notin DOMAIN store
                      THEN [valid |-> FALSE, error |-> "User not found"]
                      ELSE [valid |-> TRUE,
                            context |-> [userId |-> store[tokenBody].id,
                                         user |-> store[tokenBody],
                                         sessionId |-> sessionId]]

\* variant: no error message when the user is not in the store
validateTokenNoErrorMessage(token, store) ==
    IF token = <<>> \/ ~startsWith(token, TOKEN_PREFIX)
    THEN [valid |-> FALSE, error |-> "Invalid token format"]
    ELSE LET tokenBody == tokenBodyOf(token)
             lastUnderscoreIndex == lastIndexOf(tokenBody, "_")
         IN  IF lastUnderscoreIndex = -1
             THEN [valid |-> FALSE, error |-> "Malformed token"]
             ELSE LET userId == parsedUserId(token)
                      sessionId == parsedSessionId(token)
                  IN  IF userId = <<>> \/ sessionId = <<>>
                      THEN [valid |-> FALSE, error |-> "Malformed token"]
                      ELSE IF userId \notin DOMAIN store
                      THEN [valid |-> FALSE]
                      ELSE [valid |-> TRUE,
                            context |-> [userId |-> store[userId].id,
                                         user |-> store[userId],
                                         sessionId |-> sessionId]]

\* variant: only the nonce 'demo123' is accepted
validateTokenChecksNonce(token, store) ==
    IF token = <<>> \/ ~startsWith(token, TOKEN_PREFIX)
    THEN [valid |-> FALSE, error |-> "Invalid token format"]
    ELSE LET tokenBody == tokenBodyOf(token)
             lastUnderscoreIndex == lastIndexOf(tokenBody, "_")
         IN  IF lastUnderscoreIndex = -1
             THEN [valid |-> FALSE, error |-> "Malformed token"]
             ELSE LET userId == parsedUserId(token)
                      sessionId == parsedSessionId(token)
                  IN  IF userId = <<>> \/ sessionId = <<>>
                      THEN [valid |-> FALSE, error |-> "Malformed token"]
                      ELSE IF userId \notin DOMAIN store
                      THEN [valid |-> FALSE, error |-> "User not found"]
                      ELSE IF sessionId # <<"d","e","m","o","1","2","3">>
                      THEN [valid |-> FALSE, error |-> "Invalid token format"]
                      ELSE [valid |-> TRUE,
                            context |-> [userId |-> store[userId].id,
                                         user |-> store[userId],
                                         sessionId |-> sessionId]]

validateToken(token, store) ==
    IF token = <<>> \/ ~startsWith(token, TOKEN_PREFIX)
    THEN [valid |-> FALSE, error |-> "Invalid token format"]
    ELSE LET tokenBody == tokenBodyOf(token)
             lastUnderscoreIndex == lastIndexOf(tokenBody, "_")
         IN  IF lastUnderscoreIndex = -1
             THEN [valid |-> FALSE, error |-> "Malformed token"]
             ELSE LET userId == parsedUserId(token)
                      sessionId == parsedSessionId(token)
                  IN  IF userId = <<>> \/ sessionId = <<>>
                      THEN [valid |-> FALSE, error |-> "Malformed token"]
                      ELSE IF userId \notin DOMAIN store
                      THEN [valid |-> FALSE, error |-> "User not found"]
                      ELSE [valid |-> TRUE,
                            context |-> [userId |-> store[userId].id,
                                         user |-> store[userId],
                                         sessionId |-> sessionId]]

\* returns [value |-> BOOLEAN], or [throws |-> "TypeError"] when the looked-up
\* property is not an array and so has no includes method
hasPermission(user, permission) ==
    LET userPermissions == PermissionsOrEmpty(user.role)
    IN  IF userPermissions.kind = "array"
        THEN [value |-> includes(userPermissions.items, permission)]
        ELSE [throws |-> "TypeError"]

getPermissionsForRole(role) == PermissionsOrEmpty(role)

(***************************************************************************)
(* The in-memory database: seed data and helpers.                          *)
(***************************************************************************)
usr == <<"u","s","r">>
usr_alice == <<"u","s","r","_","a","l","i","c","e">>
usr_bob == <<"u","s","r","_","b","o","b">>
usr_carol == <<"u","s","r","_","c","a","r","o","l">>

SeedUsers ==
    (usr_alice :> [id |-> usr_alice, email |-> "alice@acme.com",
                   name |-> "Alice Chen", role |-> "admin",
                   avatarUrl |-> "https://api.dicebear.com/7.x/avataaars/svg?seed=alice",
                   createdAt |-> "2024-01-15T10:00:00Z",
                   updatedAt |-> "2024-01-15T10:00:00Z"])
 @@ (usr_bob :> [id |-> usr_bob, email |-> "bob@acme.com",
                 name |-> "Bob Martinez", role |-> "member",
                 avatarUrl |-> "https://api.dicebear.com/7.x/avataaars/svg?seed=bob",
                 createdAt |-> "2024-02-01T14:30:00Z",
                 updatedAt |-> "2024-02-01T14:30:00Z"])
 @@ (usr_carol :> [id |-> usr_carol, email |-> "carol@acme.com",
                   name |-> "Carol Kim", role |-> "viewer",
                   avatarUrl |-> "https://api.dicebear.com/7.x/avataaars/svg?seed=carol",
                   createdAt |-> "2024-02-15T09:00:00Z",
                   updatedAt |-> "2024-02-15T09:00:00Z"])

prj == <<"p","r","j">>
prj_website == <<"p","r","j","_","w","e","b","s","i","t","e">>
prj_mobile == <<"p","r","j","_","m","o","b","i","l","e">>
prj_api == <<"p","r","j","_","a","p","i">>
prj_legacy == <<"p","r","j","_","l","e","g","a","c","y">>

\* db.projects after seedDatabase()
SeedProjects ==
    (prj_website :> [id |-> prj_website, name |-> "Marketing Website",
                     description |-> "Main company marketing site with CMS integration",
                     ownerId |-> usr_alice, status |-> "active",
                     createdAt |-> "2024-01-20T11:00:00Z",
                     updatedAt |-> "2024-03-10T15:30:00Z"])
 @@ (prj_mobile :> [id |-> prj_mobile, name |-> "Mobile App v2",
                    description |-> "React Native app for iOS and Android",
                    ownerId |-> usr_bob, status |-> "active",
                    createdAt |-> "2024-02-05T08:00:00Z",
                    updatedAt |-> "2024-03-15T12:00:00Z"])
 @@ (prj_api :> [id |-> prj_api, name |-> "Public API",
                 description |-> "REST API for third-party integrations",
                 ownerId |-> usr_alice, status |-> "active",
                 createdAt |-> "2024-02-10T16:00:00Z",
                 updatedAt |-> "2024-03-12T09:45:00Z"])
 @@ (prj_legacy :> [id |-> prj_legacy, name |-> "Legacy Dashboard",
                    description |-> "Old admin dashboard - being phased out",
                    ownerId |-> usr_alice, status |-> "archived",
                    createdAt |-> "2023-06-01T10:00:00Z",
                    updatedAt |-> "2024-01-15T10:00:00Z"])

\* what Date.now().toString(36) + Math.random().toString(36).substring(2, 8)
\* can yield: a non-empty string of base-36 digits
IdSuffixes == {<<"l","x","0">>, <<"m">>}

generateId(prefix, suffix) == prefix \o <<"_">> \o suffix

\* the suffixes generateId can still yield: the suffix starts with the clock
\* in milliseconds and ends with six random digits, and is taken never to
\* repeat an id that was produced before
FreshSuffixes(prefix, used) ==
    {x \in IdSuffixes : generateId(prefix, x) \notin used}

\* the values now() can return
Timestamps == {"2024-04-01T08:00:00.000Z"}


(***************************************************************************)
(* Auth middleware.  A middleware outcome is the request as it leaves the  *)
(* middleware, the responses it sent, and the number of times it called    *)
(* next; a thrown exception is the extra field throws.                     *)
(***************************************************************************)
BEARER == <<"B","e","a","r","e","r"," ">>

ErrorResponse(status, code, message) ==
    [status |-> status,
     body |-> [success |-> FALSE,
               error |-> [code |-> code, message |-> message]]]

\* variant: the scheme of the header is not checked
requireAuthNoSchemeCheck(req, store) ==
    IF "authorization" \notin DOMAIN req \/ req.authorization = <<>>
    THEN [req |-> req, next |-> 0,
          res |-> <<ErrorResponse(401, "UNAUTHORIZED",
                                  <<"Authorization header required">>)>>]
    ELSE LET token == slice(req.authorization, 7)
             result == validateToken(token, store)
         IN  IF ~result.valid \/ "context" \notin DOMAIN result
             THEN [req |-> req, next |-> 0,
                   res |-> <<ErrorResponse(401, "UNAUTHORIZED",
                               IF "error" \in DOMAIN result
                               THEN <<result.error>>
                               ELSE <<"Invalid token">>)>>]
             ELSE [req |-> [auth |-> result.context] @@ req,
                   next |-> 1, res |-> <<>>]

\* variant: the token is validated against the users as they were when the
\* server started, not against the store
requireAuthSeedLookup(req, store) ==
    IF "authorization" \notin DOMAIN req \/ req.authorization = <<>>
    THEN [req |-> req, next |-> 0,
          res |-> <<ErrorResponse(401, "UNAUTHORIZED",
                                  <<"Authorization header required">>)>>]
    ELSE IF ~startsWith(req.authorization, BEARER)
    THEN [req |-> req, next |-> 0,
          res |-> <<ErrorResponse(401, "UNAUTHORIZED",
                                  <<"Bearer token required">>)>>]
    ELSE LET token == slice(req.authorization, 7)
             result == validateToken(token, SeedUsers)
         IN  IF ~result.valid \/ "context" \notin DOMAIN result
             THEN [req |-> req, next |-> 0,
                   res |-> <<ErrorResponse(401, "UNAUTHORIZED",
                               IF "error" \in DOMAIN result
                               THEN <<result.error>>
                               ELSE <<"Invalid token">>)>>]
             ELSE [req |-> [auth |-> result.context] @@ req,
                   next |-> 1, res |-> <<>>]

requireAuth(req, store) ==
    IF "authorization" \notin DOMAIN req \/ req.authorization = <<>>
    THEN [req |-> req, next |-> 0,
          res |-> <<ErrorResponse(401, "UNAUTHORIZED",
                                  <<"Authorization header required">>)>>]
    ELSE IF ~startsWith(req.authorization, BEARER)
    THEN [req |-> req, next |-> 0,
          res |-> <<ErrorResponse(401, "UNAUTHORIZED",
                                  <<"Bearer token required">>)>>]
    ELSE LET token == slice(req.authorization, 7)
             result == validateToken(token, store)
         IN  IF ~result.valid \/ "context" \notin DOMAIN result
             THEN [req |-> req, next |-> 0,
                   res |-> <<ErrorResponse(401, "UNAUTHORIZED",
                               IF "error" \in DOMAIN result
                               THEN <<result.error>>
                               ELSE <<"Invalid token">>)>>]
             ELSE [req |-> [auth |-> result.context] @@ req,
                   next |-> 1, res |-> <<>>]

\* variant: no return after the 403 response, so next is called as well
requirePermissionNoReturn(permission, req) ==
    IF "auth" \notin DOMAIN req
    THEN [req |-> req, next |-> 0,
          res |-> <<ErrorResponse(401, "UNAUTHORIZED",
                                  <<"Authentication required">>)>>]
    ELSE LET held == hasPermission(req.auth.user, permission)
         IN  IF "throws" \in DOMAIN held
             THEN [req |-> req, next |-> 0, res |-> <<>>,
                   throws |-> held.throws]
             ELSE IF ~held.value
             THEN [req |-> req, next |-> 1,
                   res |-> <<ErrorResponse(403, "FORBIDDEN",
                               <<"Permission denied: ", permission>>)>>]
             ELSE [req |-> req, next |-> 1, res |-> <<>>]

requirePermission(permission, req) ==
    IF "auth" \notin DOMAIN req
    THEN [req |-> req, next |-> 0,
          res |-> <<ErrorResponse(401, "UNAUTHORIZED",
                                  <<"Authentication required">>)>>]
    ELSE LET held == hasPermission(req.auth.user, permission)
         IN  IF "throws" \in DOMAIN held
             THEN [req |-> req, next |-> 0, res |-> <<>>,
                   throws |-> held.throws]
             ELSE IF ~held.value
             THEN [req |-> req, next |-> 0,
                   res |-> <<ErrorResponse(403, "FORBIDDEN",
                               <<"Permission denied: ", permission>>)>>]
             ELSE [req |-> req, next |-> 1, res |-> <<>>]

\* variant: no return after the 403 response, so next is called as well
requireAdminNoReturn(req) ==
    IF "auth" \notin DOMAIN req
    THEN [req |-> req, next |-> 0,
          res |-> <<ErrorResponse(401, "UNAUTHORIZED",
                                  <<"Authentication required">>)>>]
    ELSE IF req.auth.user.role # "admin"
    THEN [req |-> req, next |-> 1,
          res |-> <<ErrorResponse(403, "FORBIDDEN",
                                  <<"Admin access required">>)>>]
    ELSE [req |-> req, next |-> 1, res |-> <<>>]

requireAdmin(req) ==
    IF "auth" \notin DOMAIN req
    THEN [req |-> req, next |-> 0,
          res |-> <<ErrorResponse(401, "UNAUTHORIZED",
                                  <<"Authentication required">>)>>]
    ELSE IF req.auth.user.role # "admin"
    THEN [req |-> req, next |-> 0,
          res |-> <<ErrorResponse(403, "FORBIDDEN",
                                  <<"Admin access required">>)>>]
    ELSE [req |-> req, next |-> 1, res |-> <<>>]

\* the global error handler of the server entry point
InternalError ==
    ErrorResponse(500, "INTERNAL_ERROR", <<"An unexpected error occurred">>)


(***************************************************************************)
(* Users API: validation schema and route handlers.  A handler outcome is  *)
(* the response it sends and the user store it leaves.                     *)
(***************************************************************************)
Roles == {"admin", "member", "viewer"}

\* z.string().email(): the atomic strings below that have the shape of an
\* email address
WellFormedEmails ==
    {"alice@acme.com", "bob@acme.com", "carol@acme.com", "dave@acme.com"}

\* createUserSchema.safeParse(body): absent when the body is rejected,
\* otherwise the parsed input with the role defaulted to member
createUserSchema(body) ==
    IF /\ "email" \in DOMAIN body /\ body.email \in WellFormedEmails
       /\ "name" \in DOMAIN body /\ body.name # ""
       /\ ("role" \in DOMAIN body => body.role \in Roles)
    THEN <<[email |-> body.email, name |-> body.name,
            role |-> IF "role" \in DOMAIN body THEN body.role ELSE "member"]>>
    ELSE <<>>

Values(store) == {store[k] : k \in DOMAIN store}

\* GET /api/users handler
listUsers(req, store) ==
    [store |-> store,
     res |-> [status |-> 200,
              body |-> [success |-> TRUE, data |-> Values(store)]]]

\* GET /api/users/me handler
getMe(req, store) ==
    [store |-> store,
     res |-> [status |-> 200,
              body |-> [success |-> TRUE, data |-> req.auth.user]]]

\* createUser without the search for a user with the same email
createUserNoConflictCheck(req, store, newId, timestamp) ==
    LET validation == createUserSchema(req.body)
    IN  IF validation = <<>>
        THEN [store |-> store,
              res |-> ErrorResponse(400, "VALIDATION_ERROR", <<"Invalid input">>)]
        ELSE LET input == validation[1]
                 user == [id |-> newId, email |-> input.email,
                          name |-> input.name, role |-> input.role,
                          createdAt |-> timestamp,
                          updatedAt |-> timestamp]
             IN  [store |-> (newId :> user) @@ store,
                  res |-> [status |-> 201,
                           body |-> [success |-> TRUE, data |-> user]]]

\* POST /api/users handler; newId and timestamp are the values generateId
\* and now() return during the call
createUser(req, store, newId, timestamp) ==
    LET validation == createUserSchema(req.body)
    IN  IF validation = <<>>
        THEN [store |-> store,
              res |-> ErrorResponse(400, "VALIDATION_ERROR", <<"Invalid input">>)]
        ELSE LET input == validation[1]
             IN  IF \E k \in DOMAIN store : store[k].email = input.email
                 THEN [store |-> store,
                       res |-> ErrorResponse(409, "CONFLICT",
                                 <<"A user with this email already exists">>)]
                 ELSE LET user == [id |-> newId, email |-> input.email,
                                   name |-> input.name, role |-> input.role,
                                   createdAt |-> timestamp,
                                   updatedAt |-> timestamp]
                      IN  [store |-> (newId :> user) @@ store,
                           res |-> [status |-> 201,
                                    body |-> [success |-> TRUE, data |-> user]]]

\* deleteUser without the self-deletion check
deleteUserNoSelfCheck(req, store) ==
    LET id == req.params.id
    IN  IF id \notin DOMAIN store
        THEN [store |-> store,
              res |-> ErrorResponse(404, "NOT_FOUND", <<"User not found">>)]
        ELSE [store |-> [k \in DOMAIN store \ {id} |-> store[k]],
              res |-> [status |-> 200,
                       body |-> [success |-> TRUE,
                                 data |-> [deleted |-> TRUE]]]]

\* deleteUser answering without removing the user
deleteUserNotApplied(req, store) ==
    LET id == req.params.id
    IN  IF id \notin DOMAIN store
        THEN [store |-> store,
              res |-> ErrorResponse(404, "NOT_FOUND", <<"User not found">>)]
        ELSE IF req.auth.userId = id
        THEN [store |-> store,
              res |-> ErrorResponse(403, "FORBIDDEN",
                                    <<"Cannot delete your own account">>)]
        ELSE [store |-> store,
              res |-> [status |-> 200,
                       body |-> [success |-> TRUE,
                                 data |-> [deleted |-> TRUE]]]]

\* deleteUser emptying the store
deleteUserClears(req, store) ==
    LET id == req.params.id
    IN  IF id \notin DOMAIN store
        THEN [store |-> store,
              res |-> ErrorResponse(404, "NOT_FOUND", <<"User not found">>)]
        ELSE IF req.auth.userId = id
        THEN [store |-> store,
              res |-> ErrorResponse(403, "FORBIDDEN",
                                    <<"Cannot delete your own account">>)]
        ELSE [store |-> [k \in {req.auth.userId} |-> store[k]],
              res |-> [status |-> 200,
                       body |-> [success |-> TRUE,
                                 data |-> [deleted |-> TRUE]]]]

\* DELETE /api/users/:id handler
deleteUser(req, store) ==
    LET id == req.params.id
    IN  IF id \notin DOMAIN store
        THEN [store |-> store,
              res |-> ErrorResponse(404, "NOT_FOUND", <<"User not found">>)]
        ELSE IF req.auth.userId = id
        THEN [store |-> store,
              res |-> ErrorResponse(403, "FORBIDDEN",
                                    <<"Cannot delete your own account">>)]
        ELSE [store |-> [k \in DOMAIN store \ {id} |-> store[k]],
              res |-> [status |-> 200,
                       body |-> [success |-> TRUE,
                                 data |-> [deleted |-> TRUE]]]]

\* variant: z.object keeping every key of the body
StripNothing(body, keys) == body

\* what z.object keeps of a body: the keys of the schema
Strip(body, keys) == [k \in DOMAIN body \cap keys |-> body[k]]

\* z.string().url(): the atomic strings below that have the shape of a URL
WellFormedUrls ==
    {"https://api.dicebear.com/7.x/avataaars/svg?seed=alice",
     "https://api.dicebear.com/7.x/avataaars/svg?seed=bob",
     "https://api.dicebear.com/7.x/avataaars/svg?seed=carol"}

\* updateUserSchema.safeParse(body): absent when the body is rejected,
\* otherwise the fields of the schema that the body carries
updateUserSchema(body) ==
    IF /\ ("name" \in DOMAIN body => body.name # "")
       /\ ("role" \in DOMAIN body => body.role \in Roles)
       /\ ("avatarUrl" \in DOMAIN body => body.avatarUrl \in WellFormedUrls)
    THEN <<Strip(body, {"name", "role", "avatarUrl"})>>
    ELSE <<>>

\* updateUser without the check that only admins change roles
updateUserNoRoleCheck(req, store, timestamp) ==
    LET id == req.params.id
        isSelf == req.auth.userId = id
        isAdmin == req.auth.user.role = "admin"
        validation == updateUserSchema(req.body)
    IN  IF id \notin DOMAIN store
        THEN [store |-> store,
              res |-> ErrorResponse(404, "NOT_FOUND", <<"User not found">>)]
        ELSE IF ~isSelf /\ ~isAdmin
        THEN [store |-> store,
              res |-> ErrorResponse(403, "FORBIDDEN",
                                    <<"Cannot update other users">>)]
        ELSE IF validation = <<>>
        THEN [store |-> store,
              res |-> ErrorResponse(400, "VALIDATION_ERROR", <<"Invalid input">>)]
        ELSE LET updatedUser == [updatedAt |-> timestamp] @@ validation[1]
                                  @@ store[id]
             IN  [store |-> [store EXCEPT ![id] = updatedUser],
                  res |-> [status |-> 200,
                           body |-> [success |-> TRUE, data |-> updatedUser]]]

\* updateUser storing the update before the check that only admins change
\* roles
updateUserStoresBeforeRoleCheck(req, store, timestamp) ==
    LET id == req.params.id
        isSelf == req.auth.userId = id
        isAdmin == req.auth.user.role = "admin"
        validation == updateUserSchema(req.body)
    IN  IF id \notin DOMAIN store
        THEN [store |-> store,
              res |-> ErrorResponse(404, "NOT_FOUND", <<"User not found">>)]
        ELSE IF ~isSelf /\ ~isAdmin
        THEN [store |-> store,
              res |-> ErrorResponse(403, "FORBIDDEN",
                                    <<"Cannot update other users">>)]
        ELSE IF validation = <<>>
        THEN [store |-> store,
              res |-> ErrorResponse(400, "VALIDATION_ERROR", <<"Invalid input">>)]
        ELSE LET updatedUser == [updatedAt |-> timestamp] @@ validation[1]
                                  @@ store[id]
             IN  IF "role" \in DOMAIN validation[1] /\ ~isAdmin
                 THEN [store |-> [store EXCEPT ![id] = updatedUser],
                       res |-> ErrorResponse(403, "FORBIDDEN",
                                 <<"Only admins can change user roles">>)]
                 ELSE [store |-> [store EXCEPT ![id] = updatedUser],
                       res |-> [status |-> 200,
                                body |-> [success |-> TRUE,
                                          data |-> updatedUser]]]

\* PUT /api/users/:id handler
updateUser(req, store, timestamp) ==
    LET id == req.params.id
        isSelf == req.auth.userId = id
        isAdmin == req.auth.user.role = "admin"
        validation == updateUserSchema(req.body)
    IN  IF id \notin DOMAIN store
        THEN [store |-> store,
              res |-> ErrorResponse(404, "NOT_FOUND", <<"User not found">>)]
        ELSE IF ~isSelf /\ ~isAdmin
        THEN [store |-> store,
              res |-> ErrorResponse(403, "FORBIDDEN",
                                    <<"Cannot update other users">>)]
        ELSE IF validation = <<>>
        THEN [store |-> store,
              res |-> ErrorResponse(400, "VALIDATION_ERROR", <<"Invalid input">>)]
        ELSE IF "role" \in DOMAIN validation[1] /\ ~isAdmin
        THEN [store |-> store,
              res |-> ErrorResponse(403, "FORBIDDEN",
                                    <<"Only admins can change user roles">>)]
        ELSE LET updatedUser == [updatedAt |-> timestamp] @@ validation[1]
                                  @@ store[id]
             IN  [store |-> [store EXCEPT ![id] = updatedUser],
                  res |-> [status |-> 200,
                           body |-> [success |-> TRUE, data |-> updatedUser]]]


(***************************************************************************)
(* Projects API: validation schemas and route handlers.  A handler outcome *)
(* is the response it sends and the project store it leaves.               *)
(***************************************************************************)
ProjectStatuses == {"active", "archived", "deleted"}

\* createProjectSchema.safeParse(body): absent when the body is rejected,
\* otherwise the parsed input with the description defaulted to ''
createProjectSchema(body) ==
    IF "name" \in DOMAIN body /\ body.name # ""
    THEN <<[name |-> body.name,
            description |-> IF "description" \in DOMAIN body
                            THEN body.description ELSE ""]>>
    ELSE <<>>

\* updateProjectSchema.safeParse(body): absent when the body is rejected,
\* otherwise the fields of the schema that the body carries
updateProjectSchema(body) ==
    IF /\ ("name" \in DOMAIN body => body.name # "")
       /\ ("status" \in DOMAIN body => body.status \in ProjectStatuses)
    THEN <<Strip(body, {"name", "description", "status"})>>
    ELSE <<>>

ProjectNotFound == ErrorResponse(404, "NOT_FOUND", <<"Project not found">>)

\* listProjects without the filter on the status
listProjectsWithDeleted(req, store) ==
    LET userId == req.auth.userId
        isAdmin == req.auth.user.role = "admin"
    IN  [projects |-> store,
         res |-> [status |-> 200,
                  body |-> [success |-> TRUE,
                            data |-> {p \in Values(store) :
                                        isAdmin \/ p.ownerId = userId}]]]

\* GET /api/projects handler
listProjects(req, store) ==
    LET userId == req.auth.userId
        isAdmin == req.auth.user.role = "admin"
    IN  [projects |-> store,
         res |-> [status |-> 200,
                  body |-> [success |-> TRUE,
                            data |-> {p \in Values(store) :
                                        /\ p.status # "deleted"
                                        /\ isAdmin \/ p.ownerId = userId}]]]

\* getProject without the check on the status
getProjectShowsDeleted(req, store) ==
    LET id == req.params.id
    IN  IF id \notin DOMAIN store
        THEN [projects |-> store, res |-> ProjectNotFound]
        ELSE IF /\ store[id].ownerId # req.auth.userId
                /\ req.auth.user.role # "admin"
        THEN [projects |-> store,
              res |-> ErrorResponse(403, "FORBIDDEN", <<"Access denied">>)]
        ELSE [projects |-> store,
              res |-> [status |-> 200,
                       body |-> [success |-> TRUE, data |-> store[id]]]]

\* GET /api/projects/:id handler
getProject(req, store) ==
    LET id == req.params.id
    IN  IF id \notin DOMAIN store \/ store[id].status = "deleted"
        THEN [projects |-> store, res |-> ProjectNotFound]
        ELSE IF /\ store[id].ownerId # req.auth.userId
                /\ req.auth.user.role # "admin"
        THEN [projects |-> store,
              res |-> ErrorResponse(403, "FORBIDDEN", <<"Access denied">>)]
        ELSE [projects |-> store,
              res |-> [status |-> 200,
                       body |-> [success |-> TRUE, data |-> store[id]]]]

\* createProject storing a placeholder for a description that is empty
createProjectPlaceholder(req, store, newId, timestamp) ==
    LET validation == createProjectSchema(req.body)
    IN  IF validation = <<>>
        THEN [projects |-> store,
              res |-> ErrorResponse(400, "VALIDATION_ERROR", <<"Invalid input">>)]
        ELSE LET input == validation[1]
                 project == [id |-> newId, name |-> input.name,
                             description |-> IF input.description = ""
                                             THEN "No description"
                                             ELSE input.description,
                             ownerId |-> req.auth.userId,
                             status |-> "active",
                             createdAt |-> timestamp,
                             updatedAt |-> timestamp]
             IN  [projects |-> (newId :> project) @@ store,
                  res |-> [status |-> 201,
                           body |-> [success |-> TRUE, data |-> project]]]

\* POST /api/projects handler; newId and timestamp are the values
\* generateId and now() return during the call
createProject(req, store, newId, timestamp) ==
    LET validation == createProjectSchema(req.body)
    IN  IF validation = <<>>
        THEN [projects |-> store,
              res |-> ErrorResponse(400, "VALIDATION_ERROR", <<"Invalid input">>)]
        ELSE LET input == validation[1]
                 project == [id |-> newId, name |-> input.name,
                             description |-> input.description,
                             ownerId |-> req.auth.userId,
                             status |-> "active",
                             createdAt |-> timestamp,
                             updatedAt |-> timestamp]
             IN  [projects |-> (newId :> project) @@ store,
                  res |-> [status |-> 201,
                           body |-> [success |-> TRUE, data |-> project]]]

\* updateProject validating the body before the ownership check
updateProjectValidatesFirst(req, store, timestamp) ==
    LET id == req.params.id
        validation == updateProjectSchema(req.body)
    IN  IF id \notin DOMAIN store \/ store[id].status = "deleted"
        THEN [projects |-> store, res |-> ProjectNotFound]
        ELSE IF validation = <<>>
        THEN [projects |-> store,
              res |-> ErrorResponse(400, "VALIDATION_ERROR", <<"Invalid input">>)]
        ELSE IF /\ store[id].ownerId # req.auth.userId
                /\ req.auth.user.role # "admin"
        THEN [projects |-> store,
              res |-> ErrorResponse(403, "FORBIDDEN",
                                    <<"Only project owners can update projects">>)]
        ELSE LET updatedProject == [updatedAt |-> timestamp] @@ validation[1]
                                     @@ store[id]
             IN  [projects |-> [store EXCEPT ![id] = updatedProject],
                  res |-> [status |-> 200,
                           body |-> [success |-> TRUE, data |-> updatedProject]]]

\* updateProject without the check on the status
updateProjectOfDeleted(req, store, timestamp) ==
    LET id == req.params.id
        validation == updateProjectSchema(req.body)
    IN  IF id \notin DOMAIN store
        THEN [projects |-> store, res |-> ProjectNotFound]
        ELSE IF /\ store[id].ownerId # req.auth.userId
                /\ req.auth.user.role # "admin"
        THEN [projects |-> store,
              res |-> ErrorResponse(403, "FORBIDDEN",
                                    <<"Only project owners can update projects">>)]
        ELSE IF validation = <<>>
        THEN [projects |-> store,
              res |-> ErrorResponse(400, "VALIDATION_ERROR", <<"Invalid input">>)]
        ELSE LET updatedProject == [updatedAt |-> timestamp] @@ validation[1]
                                     @@ store[id]
             IN  [projects |-> [store EXCEPT ![id] = updatedProject],
                  res |-> [status |-> 200,
                           body |-> [success |-> TRUE, data |-> updatedProject]]]

\* updateProject without the ownership check
updateProjectNoOwnerCheck(req, store, timestamp) ==
    LET id == req.params.id
        validation == updateProjectSchema(req.body)
    IN  IF id \notin DOMAIN store \/ store[id].status = "deleted"
        THEN [projects |-> store, res |-> ProjectNotFound]
        ELSE IF validation = <<>>
        THEN [projects |-> store,
              res |-> ErrorResponse(400, "VALIDATION_ERROR", <<"Invalid input">>)]
        ELSE LET updatedProject == [updatedAt |-> timestamp] @@ validation[1]
                                     @@ store[id]
             IN  [projects |-> [store EXCEPT ![id] = updatedProject],
                  res |-> [status |-> 200,
                           body |-> [success |-> TRUE, data |-> updatedProject]]]

\* PUT /api/projects/:id handler
updateProject(req, store, timestamp) ==
    LET id == req.params.id
        validation == updateProjectSchema(req.body)
    IN  IF id \notin DOMAIN store \/ store[id].status = "deleted"
        THEN [projects |-> store, res |-> ProjectNotFound]
        ELSE IF /\ store[id].ownerId # req.auth.userId
                /\ req.auth.user.role # "admin"
        THEN [projects |-> store,
              res |-> ErrorResponse(403, "FORBIDDEN",
                                    <<"Only project owners can update projects">>)]
        ELSE IF validation = <<>>
        THEN [projects |-> store,
              res |-> ErrorResponse(400, "VALIDATION_ERROR", <<"Invalid input">>)]
        ELSE LET updatedProject == [updatedAt |-> timestamp] @@ validation[1]
                                     @@ store[id]
             IN  [projects |-> [store EXCEPT ![id] = updatedProject],
                  res |-> [status |-> 200,
                           body |-> [success |-> TRUE, data |-> updatedProject]]]

\* deleteProject without the ownership check
deleteProjectNoOwnerCheck(req, store, timestamp) ==
    LET id == req.params.id
    IN  IF id \notin DOMAIN store \/ store[id].status = "deleted"
        THEN [projects |-> store, res |-> ProjectNotFound]
        ELSE [projects |-> [store EXCEPT ![id] = [status |-> "deleted",
                                                  updatedAt |-> timestamp]
                                                   @@ store[id]],
              res |-> [status |-> 200,
                       body |-> [success |-> TRUE,
                                 data |-> [deleted |-> TRUE]]]]

\* deleteProject removing the project from the store
deleteProjectRemoves(req, store, timestamp) ==
    LET id == req.params.id
    IN  IF id \notin DOMAIN store \/ store[id].status = "deleted"
        THEN [projects |-> store, res |-> ProjectNotFound]
        ELSE IF /\ store[id].ownerId # req.auth.userId
                /\ req.auth.user.role # "admin"
        THEN [projects |-> store,
              res |-> ErrorResponse(403, "FORBIDDEN",
                                    <<"Only project owners can delete projects">>)]
        ELSE [projects |-> [k \in DOMAIN store \ {id} |-> store[k]],
              res |-> [status |-> 200,
                       body |-> [success |-> TRUE,
                                 data |-> [deleted |-> TRUE]]]]

\* DELETE /api/projects/:id handler: a soft delete
deleteProject(req, store, timestamp) ==
    LET id == req.params.id
    IN  IF id \notin DOMAIN store \/ store[id].status = "deleted"
        THEN [projects |-> store, res |-> ProjectNotFound]
        ELSE IF /\ store[id].ownerId # req.auth.userId
                /\ req.auth.user.role # "admin"
        THEN [projects |-> store,
              res |-> ErrorResponse(403, "FORBIDDEN",
                                    <<"Only project owners can delete projects">>)]
        ELSE [projects |-> [store EXCEPT ![id] = [status |-> "deleted",
                                                  updatedAt |-> timestamp]
                                                   @@ store[id]],
              res |-> [status |-> 200,
                       body |-> [success |-> TRUE,
                                 data |-> [deleted |-> TRUE]]]]


(***************************************************************************)
(* Express runs the middleware of a route in order and stops at the first  *)
(* one that does not call next.  The record of a request keeps the request *)
(* as the handlers left it, the outcome of each middleware that ran, every *)
(* response sent, whether the route handler ran, and the store before.     *)
(***************************************************************************)
\* the middleware of a route: requireAuth, then requirePermission(p) for the
\* p of permissions (none or one); handled tells that every middleware
\* called next, so that the route handler runs
Middleware(route, permissions, req, store) ==
    LET a == requireAuth(req, store)
        p == requirePermission(permissions[1], a.req)
        A == [name |-> "requireAuth", res |-> a.res, next |-> a.next]
        P == [name |-> "requirePermission", res |-> p.res, next |-> p.next]
    IN  IF a.next = 0 \/ permissions = <<>>
        THEN [op |-> route, req |-> a.req, pre |-> store, mw |-> <<A>>,
              handled |-> a.next = 1, res |-> a.res]
        ELSE IF "throws" \in DOMAIN p
        THEN [op |-> route, req |-> p.req, pre |-> store, mw |-> <<A, P>>,
              handled |-> FALSE, res |-> <<InternalError>>]
        ELSE [op |-> route, req |-> p.req, pre |-> store, mw |-> <<A, P>>,
              handled |-> p.next = 1, res |-> a.res \o p.res]

\* the outcome when the route handler does not run
NotHandled(store) == [store |-> store]

\* the record of the request, with the response of the handler if it ran
Record(m, out) ==
    IF m.handled THEN [m EXCEPT !.res = m.res \o <<out.res>>] ELSE m

(***************************************************************************)
(* Inputs.                                                                 *)
(***************************************************************************)
demo123 == <<"d","e","m","o","1","2","3">>
DEMO_TOKEN == TOKEN_PREFIX \o usr_alice \o <<"_">> \o demo123

\* ids the store can hold: the seed ids and the ids generateId('usr') yields
UserIds == DOMAIN SeedUsers \cup {generateId(usr, x) : x \in IdSuffixes}

BodyAlphabet == {"_", "x"}
Nonces == uuidv4 \cup {demo123, <<"x">>}

\* prefix-stripped token bodies: every short string, and every user id
\* alone, with an empty nonce, with a nonce, with an empty id part, and
\* with a further separator after the nonce
TokenBodies ==
    Strings(BodyAlphabet, MaxBodyLen)
      \cup UserIds
      \cup {id \o <<"_">> : id \in UserIds}
      \cup {id \o <<"_">> \o n : id \in UserIds, n \in Nonces}
      \cup {<<"_">> \o n : n \in Nonces}
      \cup {id \o <<"_", "x", "_", "x">> : id \in UserIds}

Tokens ==
    {TOKEN_PREFIX \o b : b \in TokenBodies}
      \cup {<<>>,
            <<"n","o","t","_","a","_","t","o","k","e","n">>,
            <<"s","e","s","s","i","o","n">>,
            <<"S">> \o Tail(DEMO_TOKEN),
            <<" ">> \o DEMO_TOKEN,
            usr_alice \o <<"_">> \o demo123}

\* ids a token is minted for: the user ids and every short non-empty string
MintIds == UserIds \cup (Strings(BodyAlphabet, MaxIdLen) \ {<<>>})

\* values of the Authorization header
AuthorizationHeaders ==
    {BEARER \o t : t \in Tokens}
      \cup {<<>>,
            <<"B","a","s","i","c"," ">> \o DEMO_TOKEN,
            <<"b","e","a","r","e","r"," ">> \o DEMO_TOKEN,
            <<"B","e","a","r","e","r">> \o DEMO_TOKEN,
            DEMO_TOKEN}

\* the headers the permission-gated routes are exercised with
RouteHeaders ==
    {BEARER \o generateSessionToken(id, demo123) : id \in UserIds}
      \cup {BEARER \o TOKEN_PREFIX \o usr_alice}

NoHeaders == [x \in {} |-> <<>>]
HeadersOver(H) == {NoHeaders} \cup {[authorization |-> h] : h \in H}

RoleInputs ==
    Roles \cup {"guest", "Admin", "", "constructor", "__proto__", "toString"}

PermissionInputs ==
    {"read", "write", "delete", "manage:users", "manage:projects",
     "manage:api-keys", "manage", "manage:*", "READ"}

CreateBodies ==
    {[email |-> e, name |-> n] : e \in {"dave@acme.com", "alice@acme.com"},
                                 n \in {"Dave Park"}}
      \cup {[email |-> "dave@acme.com", name |-> "Dave Park", role |-> r] :
               r \in {"admin", "owner"}}
      \cup {[email |-> e, name |-> ""] : e \in {"dave@acme.com", "alice@acme.com"}}

IdParams == UserIds \cup {<<"u","s","r","_","n","o","n","e">>}

\* the headers the other routes are exercised with: a token of each seed
\* user and a token of a user the store never held
SeedHeaders ==
    {BEARER \o generateSessionToken(id, demo123) :
        id \in DOMAIN SeedUsers \cup {<<"u","s","r","_","n","o","n","e">>}}

prj_none == <<"p","r","j","_","n","o","n","e">>

\* the suffixes generateId yields for a project
ProjectSuffixes == {<<"l","x","0">>}

\* the :id of the project routes
ProjectIdParams ==
    {prj_mobile, prj_none} \cup {generateId(prj, x) : x \in ProjectSuffixes}

CreateProjectBodies ==
    {[name |-> "Docs"], [name |-> "Docs", description |-> "Handbook"],
     [name |-> ""]}

UpdateProjectBodies ==
    {[name |-> "Renamed"], [status |-> "deleted"], [status |-> "paused"],
     [name |-> "Renamed", id |-> prj_none, ownerId |-> usr_carol,
      createdAt |-> "2020-01-01T00:00:00Z"]}

\* the :id and the bodies of PUT /api/users/:id
UpdateIdParams == {usr_bob, usr_carol, <<"u","s","r","_","n","o","n","e">>}

UpdateUserBodies ==
    {[role |-> "admin"], [role |-> "viewer"], [role |-> "owner"],
     [name |-> "Renamed"], [name |-> "", role |-> "admin"],
     [name |-> "Renamed", id |-> usr_alice, email |-> "alice@acme.com",
      createdAt |-> "2020-01-01T00:00:00Z"]}

(***************************************************************************)
(* State: the user store, the project store, the user ids generateId has   *)
(* produced so far, the last minted token, and the record of the last      *)
(* operation.                                                              *)
(***************************************************************************)
VARIABLES users, projects, issued, minted, last

vars == <<users, projects, issued, minted, last>>

Init ==
    /\ users = SeedUsers
    /\ projects = SeedProjects
    /\ issued = {}
    /\ minted = <<>>
    /\ last = [op |-> "init"]

\* authService.generateSessionToken(userId)
GenerateSessionToken ==
    \E userId \in MintIds, sessionId \in uuidv4 :
        /\ minted' = <<[userId |-> userId,
                        token |-> generateSessionToken(userId, sessionId)]>>
        /\ last' = [op |-> "generateSessionToken", userId |-> userId,
                    result |-> generateSessionToken(userId, sessionId)]
        /\ UNCHANGED <<users, projects, issued>>

\* authService.validateToken(token), on any input or on the minted token
ValidateToken ==
    \E token \in Tokens \cup {m.token : m \in {minted[i] : i \in DOMAIN minted}} :
        /\ last' = [op |-> "validateToken", token |-> token,
                    result |-> validateToken(token, users)]
        /\ minted' = IF minted # <<>> /\ minted[1].token = token
                     THEN minted ELSE <<>>
        /\ UNCHANGED <<users, projects, issued>>

\* authService.hasPermission(user, permission)
HasPermission ==
    \E role \in RoleInputs, permission \in PermissionInputs :
        /\ last' = [op |-> "hasPermission", role |-> role,
                    permission |-> permission,
                    result |-> hasPermission(
                        [SeedUsers[usr_bob] EXCEPT !.role = role], permission)]
        /\ minted' = <<>>
        /\ UNCHANGED <<users, projects, issued>>

\* authService.getPermissionsForRole(role)
GetPermissionsForRole ==
    \E role \in RoleInputs :
        /\ last' = [op |-> "getPermissionsForRole", role |-> role,
                    result |-> getPermissionsForRole(role)]
        /\ minted' = <<>>
        /\ UNCHANGED <<users, projects, issued>>

\* GET /api/users/me: requireAuth, then the handler
GetMe ==
    \E h \in HeadersOver(AuthorizationHeaders) :
        \E m \in {Middleware("GET /api/users/me", <<>>,
                             [method |-> "GET", path |-> "/api/users/me"] @@ h, users)} :
            \E out \in {IF m.handled THEN getMe(m.req, users)
                         ELSE NotHandled(users)} :
                /\ last' = Record(m, out)
                /\ users' = out.store
                /\ minted' = <<>>
                /\ UNCHANGED <<projects, issued>>

\* GET /api/users: requireAuth, requirePermission('manage:users'), handler
GetUsers ==
    \E h \in HeadersOver(RouteHeaders) :
        \E m \in {Middleware("GET /api/users", <<"manage:users">>,
                             [method |-> "GET", path |-> "/api/users"] @@ h, users)} :
            \E out \in {IF m.handled THEN listUsers(m.req, users)
                         ELSE NotHandled(users)} :
                /\ last' = Record(m, out)
                /\ users' = out.store
                /\ minted' = <<>>
                /\ UNCHANGED <<projects, issued>>

\* POST /api/users
PostUsers ==
    \E h \in HeadersOver(RouteHeaders), body \in CreateBodies,
       x \in FreshSuffixes(usr, issued), timestamp \in Timestamps :
        \E m \in {Middleware("POST /api/users", <<"manage:users">>,
                             [method |-> "POST", path |-> "/api/users", body |-> body] @@ h, users)} :
            \E out \in {IF m.handled THEN createUser(m.req, users, generateId(usr, x), timestamp)
                         ELSE NotHandled(users)} :
                /\ last' = Record(m, out)
                /\ users' = out.store
                /\ issued' = IF generateId(usr, x) \in DOMAIN out.store \ DOMAIN users
                             THEN issued \cup {generateId(usr, x)} ELSE issued
                /\ minted' = <<>>
                /\ UNCHANGED projects

\* DELETE /api/users/:id
DeleteUsersId ==
    \E h \in HeadersOver(RouteHeaders), id \in IdParams :
        \E m \in {Middleware("DELETE /api/users/:id", <<"manage:users">>,
                             [method |-> "DELETE", path |-> "/api/users/:id",
                              params |-> [id |-> id]] @@ h, users)} :
            \E out \in {IF m.handled THEN deleteUser(m.req, users)
                         ELSE NotHandled(users)} :
                /\ last' = Record(m, out)
                /\ users' = out.store
                /\ minted' = <<>>
                /\ UNCHANGED <<projects, issued>>

\* PUT /api/users/:id: requireAuth, then the handler
PutUsersId ==
    \E h \in HeadersOver(SeedHeaders), id \in UpdateIdParams,
       body \in UpdateUserBodies, timestamp \in Timestamps :
        \E m \in {Middleware("PUT /api/users/:id", <<>>,
                             [method |-> "PUT", path |-> "/api/users/:id",
                              params |-> [id |-> id], body |-> body] @@ h, users)} :
            \E out \in {IF m.handled THEN updateUser(m.req, users, timestamp)
                         ELSE NotHandled(users)} :
                /\ last' = Record(m, out)
                /\ users' = out.store
                /\ minted' = <<>>
                /\ UNCHANGED <<projects, issued>>

\* the outcome for the project store when the route handler does not run
ProjectsNotHandled(store) == [projects |-> store]

\* the record of a request to the projects API: the project store before
\* is kept too
ProjectsRecord(m, out, store) == Record(m, out) @@ [preProjects |-> store]

\* GET /api/projects: requireAuth, then the handler
GetProjects ==
    \E h \in HeadersOver(SeedHeaders) :
        \E m \in {Middleware("GET /api/projects", <<>>,
                             [method |-> "GET", path |-> "/api/projects"] @@ h, users)} :
            \E out \in {IF m.handled THEN listProjects(m.req, projects)
                         ELSE ProjectsNotHandled(projects)} :
                /\ last' = ProjectsRecord(m, out, projects)
                /\ projects' = out.projects
                /\ minted' = <<>>
                /\ UNCHANGED <<users, issued>>

\* GET /api/projects/:id
GetProjectsId ==
    \E h \in HeadersOver(SeedHeaders), id \in ProjectIdParams :
        \E m \in {Middleware("GET /api/projects/:id", <<>>,
                             [method |-> "GET", path |-> "/api/projects/:id",
                              params |-> [id |-> id]] @@ h, users)} :
            \E out \in {IF m.handled THEN getProject(m.req, projects)
                         ELSE ProjectsNotHandled(projects)} :
                /\ last' = ProjectsRecord(m, out, projects)
                /\ projects' = out.projects
                /\ minted' = <<>>
                /\ UNCHANGED <<users, issued>>

\* POST /api/projects
PostProjects ==
    \E h \in HeadersOver(SeedHeaders), body \in CreateProjectBodies,
       x \in {y \in ProjectSuffixes : generateId(prj, y) \notin DOMAIN projects},
       timestamp \in Timestamps :
        \E m \in {Middleware("POST /api/projects", <<>>,
                             [method |-> "POST", path |-> "/api/projects",
                              body |-> body] @@ h, users)} :
            \E out \in {IF m.handled
                         THEN createProject(m.req, projects, generateId(prj, x), timestamp)
                         ELSE ProjectsNotHandled(projects)} :
                /\ last' = ProjectsRecord(m, out, projects)
                /\ projects' = out.projects
                /\ minted' = <<>>
                /\ UNCHANGED <<users, issued>>

\* PUT /api/projects/:id
PutProjectsId ==
    \E h \in HeadersOver(SeedHeaders), id \in ProjectIdParams,
       body \in UpdateProjectBodies, timestamp \in Timestamps :
        \E m \in {Middleware("PUT /api/projects/:id", <<>>,
                             [method |-> "PUT", path |-> "/api/projects/:id",
                              params |-> [id |-> id], body |-> body] @@ h, users)} :
            \E out \in {IF m.handled THEN updateProject(m.req, projects, timestamp)
                         ELSE ProjectsNotHandled(projects)} :
                /\ last' = ProjectsRecord(m, out, projects)
                /\ projects' = out.projects
                /\ minted' = <<>>
                /\ UNCHANGED <<users, issued>>

\* DELETE /api/projects/:id
DeleteProjectsId ==
    \E h \in HeadersOver(SeedHeaders), id \in ProjectIdParams,
       timestamp \in Timestamps :
        \E m \in {Middleware("DELETE /api/projects/:id", <<>>,
                             [method |-> "DELETE", path |-> "/api/projects/:id",
                              params |-> [id |-> id]] @@ h, users)} :
            \E out \in {IF m.handled THEN deleteProject(m.req, projects, timestamp)
                         ELSE ProjectsNotHandled(projects)} :
                /\ last' = ProjectsRecord(m, out, projects)
                /\ projects' = out.projects
                /\ minted' = <<>>
                /\ UNCHANGED <<users, issued>>

\* requirePermission(permission) called on a request as requireAuth left
\* it, authenticated or not; no route handler runs
RequirePermission ==
    \E h \in HeadersOver(SeedHeaders), permission \in PermissionInputs :
        \E a \in {requireAuth([method |-> "GET", path |-> "/"] @@ h, users)} :
            \E r \in {requirePermission(permission, a.req)} :
                /\ last' = [op |-> "requirePermission",
                            permission |-> permission, req |-> r.req,
                            pre |-> users, handled |-> FALSE,
                            thrown |-> "throws" \in DOMAIN r,
                            next |-> r.next, res |-> r.res]
                /\ minted' = <<>>
                /\ UNCHANGED <<users, projects, issued>>

\* requireAdmin, which no route mounts, called on a request as requireAuth
\* left it; no route handler runs
RequireAdmin ==
    \E h \in HeadersOver(SeedHeaders) :
        \E a \in {requireAuth([method |-> "GET", path |-> "/"] @@ h, users)} :
            \E r \in {requireAdmin(a.req)} :
                /\ last' = [op |-> "requireAdmin", req |-> r.req,
                            pre |-> users, handled |-> FALSE,
                            next |-> r.next, res |-> r.res]
                /\ minted' = <<>>
                /\ UNCHANGED <<users, projects, issued>>

\* stores the service is called on: the seed store, and stores that user
\* creations and deletions by an admin lead to
AfterCreate(store, body, x) ==
    createUser([body |-> body], store, generateId(usr, x),
               CHOOSE t \in Timestamps : TRUE).store

AfterDelete(store, requester, id) ==
    deleteUser([params |-> [id |-> id], auth |-> [userId |-> requester]],
               store).store

ServiceStores ==
    LET dave == [email |-> "dave@acme.com", name |-> "Dave Park",
                 role |-> "admin"]
        x == CHOOSE y \in IdSuffixes : TRUE
        withDave == AfterCreate(AfterDelete(SeedUsers, usr_alice, usr_carol),
                                dave, x)
    IN  {SeedUsers,
         AfterDelete(SeedUsers, usr_alice, usr_bob),
         withDave,
         AfterDelete(withDave, generateId(usr, x), usr_alice)}

InitService ==
    /\ users \in ServiceStores
    /\ projects = SeedProjects
    /\ issued = DOMAIN users \ DOMAIN SeedUsers
    /\ minted = <<>>
    /\ last = [op |-> "init"]

NextService ==
    \/ GenerateSessionToken
    \/ ValidateToken
    \/ HasPermission
    \/ GetPermissionsForRole

\* the service methods called directly, on a store the server can hold
SpecService == InitService /\ [][NextService]_vars

Next ==
    \/ GetMe
    \/ GetUsers
    \/ PostUsers
    \/ DeleteUsersId

\* the server handling requests, from the seed data
Spec == Init /\ [][Next]_vars

NextUsers ==
    \/ GetUsers
    \/ PutUsersId
    \/ DeleteUsersId

\* the users API with updates: listing, updating and deleting users
SpecUsers == Init /\ [][NextUsers]_vars

NextProjects ==
    \/ GetProjects
    \/ GetProjectsId
    \/ PostProjects
    \/ PutProjectsId
    \/ DeleteProjectsId

\* the projects API, from the seed data
SpecProjects == Init /\ [][NextProjects]_vars

\* project stores the server can hold: the seed store, the store after
\* usr_bob deleted his project, and the store after usr_carol created one
ProjectStores ==
    LET t == CHOOSE ts \in Timestamps : TRUE
        x == CHOOSE y \in ProjectSuffixes : TRUE
        asBob == [userId |-> usr_bob, user |-> SeedUsers[usr_bob]]
        asCarol == [userId |-> usr_carol, user |-> SeedUsers[usr_carol]]
    IN  {SeedProjects,
         deleteProject([params |-> [id |-> prj_mobile], auth |-> asBob],
                       SeedProjects, t).projects,
         createProject([body |-> [name |-> "Docs"], auth |-> asCarol],
                       SeedProjects, generateId(prj, x), t).projects}

InitServer ==
    /\ users \in ServiceStores
    /\ projects \in ProjectStores
    /\ issued = DOMAIN users \ DOMAIN SeedUsers
    /\ minted = <<>>
    /\ last = [op |-> "init"]

\* one call of the service or one request to the server
NextServer ==
    /\ last.op = "init"
    /\ \/ NextService
       \/ Next
       \/ NextUsers
       \/ NextProjects
       \/ RequirePermission
       \/ RequireAdmin

\* the whole server, one operation at a time, on every pair of stores above
SpecServer == InitServer /\ [][NextServer]_vars

\* the store maps every key to a record with that id and a known role
TypeOK ==
    /\ DOMAIN users \subseteq UserIds
    /\ \A k \in DOMAIN users : users[k].id = k /\ users[k].role \in Roles


(***************************************************************************)
(* Properties.  The token format is restated here position by position,    *)
(* independently of the string primitives the service uses.                *)
(***************************************************************************)
HasPrefix(t) ==
    /\ Len(t) >= Len(TOKEN_PREFIX)
    /\ \A i \in 1..Len(TOKEN_PREFIX) : t[i] = TOKEN_PREFIX[i]

BodyOf(t) == [i \in 1..(Len(t) - Len(TOKEN_PREFIX)) |-> t[i + Len(TOKEN_PREFIX)]]

HasUnderscore(b) == \E i \in 1..Len(b) : b[i] = "_"

\* positions of the last underscore of b: empty or a single position
LastUnderscore(b) ==
    {i \in 1..Len(b) : b[i] = "_" /\ \A j \in (i + 1)..Len(b) : b[j] # "_"}

Before(b, i) == [k \in 1..(i - 1) |-> b[k]]
After(b, i) == [k \in 1..(Len(b) - i) |-> b[i + k]]

\* the token is prefix + a + "_" + c with a, c non-empty and no "_" in c
WellFormed(t) ==
    /\ HasPrefix(t)
    /\ \E i \in LastUnderscore(BodyOf(t)) : 1 < i /\ i < Len(BodyOf(t))

IdPart(t) == Before(BodyOf(t), CHOOSE i \in LastUnderscore(BodyOf(t)) : TRUE)
NoncePart(t) == After(BodyOf(t), CHOOSE i \in LastUnderscore(BodyOf(t)) : TRUE)

Validated == last.op = "validateToken"

\* C1: validating the token just minted for an id recovers exactly that id,
\* whatever underscores the id contains; when the id is a key of the store
\* the call succeeds with a context for that id, and otherwise it fails only
\* because the user is not found.
C1_RoundTrip ==
    (Validated /\ minted # <<>> /\ last.token = minted[1].token) =>
        /\ parsedUserId(last.token) = minted[1].userId
        /\ minted[1].userId \in DOMAIN users =>
              /\ last.result.valid
              /\ last.result.context.userId = minted[1].userId
        /\ minted[1].userId \notin DOMAIN users =>
              last.result = [valid |-> FALSE, error |-> "User not found"]

\* a token minted for an existing user whose id contains "_" was validated
C1_Witness ==
    /\ Validated /\ minted # <<>> /\ last.token = minted[1].token
    /\ minted[1].userId = usr_alice
    /\ last.result.valid
    /\ last.result.context.userId = usr_alice

\* C2: an accepted token is always accepted as the full id it encodes: the
\* body is exactly userId + "_" + sessionId for a user of the store, with a
\* non-empty sessionId free of "_"; and a token that is only the prefix and a
\* user id (no nonce) is never accepted as the part of that id before its
\* last "_".
C2_NoTruncatedId ==
    Validated =>
        /\ last.result.valid =>
              /\ last.result.context.userId \in DOMAIN users
              /\ last.result.context.user = users[last.result.context.userId]
              /\ last.result.context.user.id = last.result.context.userId
              /\ last.result.context.sessionId # <<>>
              /\ ~HasUnderscore(last.result.context.sessionId)
              /\ BodyOf(last.token) =
                    last.result.context.userId \o <<"_">>
                        \o last.result.context.sessionId
        /\ \A id \in UserIds \cup DOMAIN users :
              last.token = TOKEN_PREFIX \o id =>
                 \A i \in LastUnderscore(id) :
                    ~(/\ last.result.valid
                      /\ last.result.context.userId = Before(id, i))

\* the bare 'session_usr_alice' was presented while usr_alice exists, and
\* was rejected
C2_Witness ==
    /\ Validated
    /\ last.token = TOKEN_PREFIX \o usr_alice
    /\ usr_alice \in DOMAIN users
    /\ last.result = [valid |-> FALSE, error |-> "User not found"]

\* C3: an empty token or one without the prefix 'session_' is rejected with
\* an error and no context, whatever the store holds.
C3_BadPrefixRejected ==
    (Validated /\ ~HasPrefix(last.token)) =>
        /\ last.result.valid = FALSE
        /\ "error" \in DOMAIN last.result
        /\ "context" \notin DOMAIN last.result
        /\ last.result.error = "Invalid token format"

\* the token of an existing user, without the prefix, was rejected
C3_Witness ==
    /\ Validated
    /\ last.token = usr_alice \o <<"_">> \o demo123
    /\ usr_alice \in DOMAIN users
    /\ last.result.valid = FALSE
    /\ "context" \notin DOMAIN last.result

\* C4: a prefixed token whose body has no "_", or nothing before its last
\* "_", or nothing after it, is rejected as malformed with no context.
C4_EmptyPartMalformed ==
    (Validated /\ HasPrefix(last.token) /\ ~WellFormed(last.token)) =>
        last.result = [valid |-> FALSE, error |-> "Malformed token"]

\* 'session_', 'session__x' and 'session_x_' style tokens: here the id of an
\* existing user followed by an empty nonce
C4_Witness ==
    /\ Validated
    /\ last.token = TOKEN_PREFIX \o usr_alice \o <<"_">>
    /\ usr_alice \in DOMAIN users
    /\ last.result = [valid |-> FALSE, error |-> "Malformed token"]

\* C5: the body is split on its last "_" only: for a body a + "_" + b with
\* a, b non-empty and no "_" in b, the user id is a and the session id is b.
C5_SplitOnLast ==
    (Validated /\ WellFormed(last.token)) =>
        /\ parsedUserId(last.token) = IdPart(last.token)
        /\ parsedSessionId(last.token) = NoncePart(last.token)
        /\ last.result.valid =>
              /\ last.result.context.userId = IdPart(last.token)
              /\ last.result.context.sessionId = NoncePart(last.token)
        /\ ~last.result.valid => IdPart(last.token) \notin DOMAIN users

\* 'session_usr_alice_demo123' gave user id 'usr_alice', session 'demo123'
C5_Witness ==
    /\ Validated
    /\ last.token = DEMO_TOKEN
    /\ last.result.valid
    /\ last.result.context.userId = usr_alice
    /\ last.result.context.sessionId = demo123

\* C6: a well-formed token fails with 'User not found' iff its id part is
\* not a key of the store; otherwise the result is valid with the id, the
\* store's record for it and the nonce.
C6_Lookup ==
    (Validated /\ WellFormed(last.token)) =>
        /\ (last.result = [valid |-> FALSE, error |-> "User not found"])
              <=> IdPart(last.token) \notin DOMAIN users
        /\ IdPart(last.token) \in DOMAIN users =>
              last.result =
                 [valid |-> TRUE,
                  context |-> [userId |-> IdPart(last.token),
                               user |-> users[IdPart(last.token)],
                               sessionId |-> NoncePart(last.token)]]

\* a token of the deleted user usr_bob was answered 'User not found'
C6_Witness ==
    /\ Validated
    /\ last.token = generateSessionToken(usr_bob, demo123)
    /\ usr_bob \notin DOMAIN users
    /\ last.result = [valid |-> FALSE, error |-> "User not found"]


\* C7: for a role that is not admin, member or viewer, getPermissionsForRole
\* returns the empty list and hasPermission returns false, without throwing.
C7_UnknownRoleFailsClosed ==
    /\ (last.op = "getPermissionsForRole" /\ last.role \notin Roles) =>
          last.result = [kind |-> "array", items |-> <<>>]
    /\ (last.op = "hasPermission" /\ last.role \notin Roles) =>
          last.result = [value |-> FALSE]

\* the permission table as the claim states it
PermissionTable ==
    [admin  |-> {"read", "write", "delete", "manage:users", "manage:projects",
                 "manage:api-keys"},
     member |-> {"read", "write", "manage:projects", "manage:api-keys"},
     viewer |-> {"read"}]

\* C8: for the three roles hasPermission is exactly membership in the
\* role's table entry, by equality of the whole permission string; and what
\* viewer holds member holds too, member holding more.
C8_HasPermissionTable ==
    /\ (last.op = "hasPermission" /\ last.role \in Roles) =>
          /\ last.result =
                [value |-> last.permission \in PermissionTable[last.role]]
          /\ (last.role = "viewer" /\ last.result.value) =>
                hasPermission([role |-> "member"], last.permission).value
    /\ (last.op = "getPermissionsForRole" /\ last.role \in Roles) =>
          /\ last.result.kind = "array"
          /\ {last.result.items[i] : i \in 1..Len(last.result.items)}
                = PermissionTable[last.role]
    /\ \E p \in PermissionInputs :
          /\ hasPermission([role |-> "member"], p).value
          /\ ~hasPermission([role |-> "viewer"], p).value

\* an admin asked for 'manage', a proper prefix of permissions it holds, and
\* was refused
C8_Witness ==
    /\ last.op = "hasPermission"
    /\ last.role = "admin"
    /\ last.permission = "manage"
    /\ last.result = [value |-> FALSE]

Requested ==
    last.op \in {"GET /api/users/me", "GET /api/users", "POST /api/users",
                 "DELETE /api/users/:id"}

HasBearer(h) == Len(h) >= Len(BEARER) /\ \A i \in 1..Len(BEARER) : h[i] = BEARER[i]

TokenOf(h) == [i \in 1..(Len(h) - Len(BEARER)) |-> h[i + Len(BEARER)]]

\* one of the three refusal cases of requireAuth, on the store as it was
\* when the request arrived
AuthRejected ==
    \/ "authorization" \notin DOMAIN last.req
    \/ ~HasBearer(last.req.authorization)
    \/ ~validateToken(TokenOf(last.req.authorization), last.pre).valid

\* C9: requireAuth answers 401 UNAUTHORIZED, without calling next or setting
\* req.auth, when the header is missing, is not a Bearer header, or carries
\* a token validateToken rejects; otherwise it sends nothing, sets req.auth
\* to the validated context and calls next once.
C9_RequireAuth ==
    Requested =>
        /\ last.mw[1].name = "requireAuth"
        /\ AuthRejected =>
              /\ Len(last.mw[1].res) = 1
              /\ last.mw[1].res[1].status = 401
              /\ last.mw[1].res[1].body.success = FALSE
              /\ last.mw[1].res[1].body.error.code = "UNAUTHORIZED"
              /\ last.mw[1].next = 0
              /\ "auth" \notin DOMAIN last.req
              /\ Len(last.mw) = 1
              /\ ~last.handled
              /\ last.res = last.mw[1].res
              /\ users = last.pre
        /\ ~AuthRejected =>
              /\ last.mw[1].res = <<>>
              /\ last.mw[1].next = 1
              /\ "auth" \in DOMAIN last.req
              /\ last.req.auth =
                    validateToken(TokenOf(last.req.authorization),
                                  last.pre).context

\* a Bearer header with the bare 'session_usr_alice' was answered 401
C9_Witness ==
    /\ last.op = "GET /api/users/me"
    /\ "authorization" \in DOMAIN last.req
    /\ last.req.authorization = BEARER \o TOKEN_PREFIX \o usr_alice
    /\ last.res = <<ErrorResponse(401, "UNAUTHORIZED", <<"User not found">>)>>
    /\ last.mw[1].next = 0

Gated ==
    last.op \in {"GET /api/users", "POST /api/users", "DELETE /api/users/:id"}

\* C10: on an authenticated request requirePermission('manage:users')
\* answers 403 FORBIDDEN without calling next iff the requester lacks the
\* permission, and calls next iff the requester holds it; so the handlers
\* that list, create and delete users run only for a requester who is admin.
C10_RequirePermission ==
    (Gated /\ "auth" \in DOMAIN last.req) =>
        /\ Len(last.mw) = 2
        /\ last.mw[2].name = "requirePermission"
        /\ (hasPermission(last.req.auth.user, "manage:users") = [value |-> FALSE])
              <=> /\ last.mw[2].next = 0
                  /\ Len(last.mw[2].res) = 1
                  /\ last.mw[2].res[1].status = 403
                  /\ last.mw[2].res[1].body.error.code = "FORBIDDEN"
        /\ (hasPermission(last.req.auth.user, "manage:users") = [value |-> TRUE])
              <=> last.mw[2].next = 1
        /\ last.mw[2].next = 1 => last.mw[2].res = <<>>
        /\ last.mw[2].next = 0 =>
              /\ ~last.handled
              /\ last.res = last.mw[2].res
              /\ users = last.pre
        /\ last.handled <=> last.mw[2].next = 1
        /\ last.handled =>
              /\ last.req.auth.user.role = "admin"
              /\ last.pre[last.req.auth.userId].role = "admin"

\* the member usr_bob asked to delete usr_carol and was answered 403
C10_Witness ==
    /\ last.op = "DELETE /api/users/:id"
    /\ "auth" \in DOMAIN last.req
    /\ last.req.auth.userId = usr_bob
    /\ last.req.auth.user.role = "member"
    /\ last.req.params.id = usr_carol
    /\ last.res = <<ErrorResponse(403, "FORBIDDEN",
                                  <<"Permission denied: ", "manage:users">>)>>
    /\ usr_carol \in DOMAIN users

(***************************************************************************)
(* Properties of the projects API and of user updates.                     *)
(***************************************************************************)
\* a PUT or DELETE on /api/projects/:id that was authenticated and whose
\* :id named a project that was in the store and not deleted
ProjectWrite ==
    /\ last.op \in {"PUT /api/projects/:id", "DELETE /api/projects/:id"}
    /\ "auth" \in DOMAIN last.req
    /\ last.req.params.id \in DOMAIN last.preProjects
    /\ last.preProjects[last.req.params.id].status # "deleted"

\* the requester of the last request owns the project named by :id, or has
\* the role admin in the user store as it was when the request arrived
OwnerOrAdmin ==
    \/ last.preProjects[last.req.params.id].ownerId = last.req.auth.userId
    \/ last.pre[last.req.auth.userId].role = "admin"

\* C11: for an existing, non-deleted project, a PUT or DELETE passes the
\* authorization step iff the requester's id equals the project's ownerId
\* or the requester's role is admin; every other requester gets 403
\* FORBIDDEN and the project is left unchanged.
C11_OwnerOrAdmin ==
    ProjectWrite =>
        /\ Len(last.res) = 1
        /\ OwnerOrAdmin <=> last.res[1].status # 403
        /\ OwnerOrAdmin => last.res[1].status \in {200, 400}
        /\ (OwnerOrAdmin /\ last.op = "DELETE /api/projects/:id") =>
              last.res[1].status = 200
        /\ ~OwnerOrAdmin =>
              /\ last.res[1].status = 403
              /\ last.res[1].body.success = FALSE
              /\ last.res[1].body.error.code = "FORBIDDEN"
              /\ projects = last.preProjects

\* the viewer usr_carol asked to delete usr_bob's project prj_mobile and was
\* answered 403, the project being left as it was
C11_Witness ==
    /\ ProjectWrite
    /\ last.op = "DELETE /api/projects/:id"
    /\ last.req.params.id = prj_mobile
    /\ last.req.auth.userId = usr_carol
    /\ last.preProjects[prj_mobile].ownerId = usr_bob
    /\ last.res[1].status = 403
    /\ projects[prj_mobile] = last.preProjects[prj_mobile]

\* the admin usr_alice renamed usr_bob's project prj_mobile
C11_WitnessAdmin ==
    /\ ProjectWrite
    /\ last.op = "PUT /api/projects/:id"
    /\ last.req.params.id = prj_mobile
    /\ last.req.auth.userId = usr_alice
    /\ last.res[1].status = 200
    /\ projects[prj_mobile].name = "Renamed"

\* an authenticated DELETE /api/users/:id whose :id is the requester's id
SelfDelete ==
    /\ last.op = "DELETE /api/users/:id"
    /\ "auth" \in DOMAIN last.req
    /\ last.req.auth.userId = last.req.params.id

\* C12: a DELETE /api/users/:id whose authenticated requester id equals
\* :id never removes that user, whatever the requester's role (admin
\* included); the user still exists and the response is 403 FORBIDDEN.
C12_SelfDeleteDenied ==
    SelfDelete =>
        /\ last.req.params.id \in DOMAIN last.pre
        /\ last.req.params.id \in DOMAIN users
        /\ users = last.pre
        /\ Len(last.res) = 1
        /\ last.res[1].status = 403
        /\ last.res[1].body.success = FALSE
        /\ last.res[1].body.error.code = "FORBIDDEN"

\* the admin usr_alice asked to delete usr_alice and was answered 403
C12_Witness ==
    /\ SelfDelete
    /\ last.req.params.id = usr_alice
    /\ last.pre[usr_alice].role = "admin"
    /\ last.handled
    /\ last.res = <<ErrorResponse(403, "FORBIDDEN",
                                  <<"Cannot delete your own account">>)>>
    /\ usr_alice \in DOMAIN users

\* an authenticated PUT /api/users/:id on a user that is in the store, with
\* a role field in the body, by a requester whose role is not admin
RoleChangeByNonAdmin ==
    /\ last.op = "PUT /api/users/:id"
    /\ "auth" \in DOMAIN last.req
    /\ last.req.params.id \in DOMAIN last.pre
    /\ "role" \in DOMAIN last.req.body
    /\ last.pre[last.req.auth.userId].role # "admin"

\* the body of the last request is one updateUserSchema accepts
UpdateBodyValid ==
    /\ "name" \in DOMAIN last.req.body => last.req.body.name # ""
    /\ "role" \in DOMAIN last.req.body =>
          last.req.body.role \in {"admin", "member", "viewer"}

\* C13 as stated: a PUT /api/users/:id whose body carries a role field and
\* whose requester is not an admin is denied with 403 FORBIDDEN and leaves
\* the target record unchanged.  The status is not always 403: a requester
\* updating their own record with a body the schema rejects is answered 400.
C13_RoleChangeAnswered403 ==
    RoleChangeByNonAdmin =>
        /\ Len(last.res) = 1
        /\ last.res[1].status = 403
        /\ last.res[1].body.error.code = "FORBIDDEN"
        /\ users = last.pre

\* C13 amended: a PUT /api/users/:id whose body carries a role field and
\* whose requester is not an admin is never applied: it leaves the store
\* unchanged and is answered 403 FORBIDDEN, except that a requester updating
\* their own record with a body the schema rejects is answered 400
\* VALIDATION_ERROR; and a user's role changes only through a request
\* authenticated as an admin.
C13_RoleEscalation ==
    /\ RoleChangeByNonAdmin =>
          /\ users = last.pre
          /\ Len(last.res) = 1
          /\ last.res[1].body.success = FALSE
          /\ IF last.req.auth.userId = last.req.params.id /\ ~UpdateBodyValid
             THEN /\ last.res[1].status = 400
                  /\ last.res[1].body.error.code = "VALIDATION_ERROR"
             ELSE /\ last.res[1].status = 403
                  /\ last.res[1].body.error.code = "FORBIDDEN"
    /\ \A id \in DOMAIN users :
          (/\ "pre" \in DOMAIN last
           /\ id \in DOMAIN last.pre
           /\ users[id].role # last.pre[id].role) =>
              /\ "auth" \in DOMAIN last.req
              /\ last.pre[last.req.auth.userId].role = "admin"
              /\ last.op = "PUT /api/users/:id"
              /\ last.req.params.id = id

\* the member usr_bob asked to make himself admin and was answered 403, his
\* record being left as it was
C13_Witness ==
    /\ RoleChangeByNonAdmin
    /\ last.req.auth.userId = usr_bob
    /\ last.req.params.id = usr_bob
    /\ last.req.body = [role |-> "admin"]
    /\ last.res = <<ErrorResponse(403, "FORBIDDEN",
                                  <<"Only admins can change user roles">>)>>
    /\ users[usr_bob] = last.pre[usr_bob]
    /\ users[usr_bob].role = "member"

\* the last request may delete the user named by :id: the requester is
\* authenticated, the requester's role holds 'manage:users', the target is
\* in the store, and the target is not the requester
MayDeleteUser ==
    /\ "auth" \in DOMAIN last.req
    /\ last.pre[last.req.auth.userId].role \in DOMAIN PermissionTable
    /\ "manage:users" \in PermissionTable[last.pre[last.req.auth.userId].role]
    /\ last.req.params.id \in DOMAIN last.pre
    /\ last.req.params.id # last.req.auth.userId

\* C14: DELETE /api/users/:id removes the target user from the store iff
\* the requester is authenticated, holds 'manage:users' (admin), the target
\* exists and differs from the requester; an admin deleting another user is
\* allowed, an admin deleting themselves is denied, and a member deleting
\* another user is denied with 403.
C14_DeleteUser ==
    last.op = "DELETE /api/users/:id" =>
        /\ MayDeleteUser <=>
              /\ last.req.params.id \in DOMAIN last.pre
              /\ last.req.params.id \notin DOMAIN users
        /\ MayDeleteUser =>
              /\ last.pre[last.req.auth.userId].role = "admin"
              /\ DOMAIN users = DOMAIN last.pre \ {last.req.params.id}
              /\ \A k \in DOMAIN users : users[k] = last.pre[k]
              /\ last.res[Len(last.res)].status = 200
        /\ ~MayDeleteUser => users = last.pre
        /\ ("auth" \in DOMAIN last.req
              /\ last.pre[last.req.auth.userId].role = "member") =>
              /\ last.res[1].status = 403
              /\ last.res[1].body.error.code = "FORBIDDEN"

\* the admin usr_alice deleted the member usr_bob
C14_Witness ==
    /\ last.op = "DELETE /api/users/:id"
    /\ MayDeleteUser
    /\ last.req.auth.userId = usr_alice
    /\ last.req.params.id = usr_bob
    /\ last.res[1].status = 200
    /\ usr_bob \in DOMAIN last.pre
    /\ usr_bob \notin DOMAIN users

\* the role of the requester of the last request, in the user store as it
\* was when the request arrived
RequesterRole == last.pre[last.req.auth.userId].role

\* C15: every change of the project store is gated by an authorization
\* check in addition to authentication: a project is updated or deleted only
\* for its owner or an admin, and a project is created only for a requester
\* whose role grants more than 'read'; a viewer cannot cause a new record to
\* be written.
C15_MutationsGated ==
    ("preProjects" \in DOMAIN last /\ projects # last.preProjects) =>
        /\ "auth" \in DOMAIN last.req
        /\ last.op \in {"POST /api/projects", "PUT /api/projects/:id",
                        "DELETE /api/projects/:id"}
        /\ last.op # "POST /api/projects" => OwnerOrAdmin
        /\ last.op = "POST /api/projects" =>
              /\ RequesterRole \in DOMAIN PermissionTable
              /\ PermissionTable[RequesterRole] # {"read"}

\* the record r is that of a call of an AuthService method
ServiceCall(r) ==
    r.op \in {"generateSessionToken", "validateToken", "hasPermission",
              "getPermissionsForRole"}

\* the record r is that of a request whose last response is a denial or an
\* error, or that a middleware stopped or that went to no route handler
Denied(r) ==
    /\ "res" \in DOMAIN r
    /\ \/ ~r.handled
       \/ /\ r.res # <<>>
          /\ r.res[Len(r.res)].status \in {400, 401, 403, 404, 409}

\* C16: authorization is side-effect free: the AuthService methods and the
\* middleware never modify the user store or the project store, and any
\* request that ends in a denial or error response (400, 401, 403, 404,
\* 409) leaves both stores exactly as they were before the request.
C16_NoSideEffects ==
    [][(ServiceCall(last') \/ Denied(last')) =>
          (users' = users /\ projects' = projects)]_vars

\* the admin usr_alice asked to create a user with the email of usr_alice
\* and was answered 409, the stores being left as they were
C16_Witness ==
    /\ last.op = "POST /api/users"
    /\ last.handled
    /\ last.req.auth.userId = usr_alice
    /\ last.req.body.email = "alice@acme.com"
    /\ last.res[1].status = 409
    /\ users = last.pre
    /\ projects \in ProjectStores

\* the record r is that of a request whose Authorization header is Bearer
\* followed by a well-formed token for the user id
BearsTokenFor(r, id) ==
    /\ "req" \in DOMAIN r
    /\ "authorization" \in DOMAIN r.req
    /\ HasBearer(r.req.authorization)
    /\ WellFormed(TokenOf(r.req.authorization))
    /\ IdPart(TokenOf(r.req.authorization)) = id

\* the user id was in the store, as a seed user or a created one, and has
\* been deleted
Deleted(id) ==
    /\ id \in DOMAIN SeedUsers \cup issued
    /\ id \notin DOMAIN users

\* C17: identity is looked up fresh on every request.  Once a user has been
\* deleted the user stays out of the store, and every later request bearing
\* a token for that user's id is rejected with 401 'User not found'; and
\* every authenticated request carries the requester's record as the store
\* holds it when the request arrives, so that the permission check and the
\* admin checks are decided by the role the user has then, not by the role
\* held when the token was minted.
C17_FreshLookup ==
    [][/\ \A id \in UserIds :
             Deleted(id) =>
                /\ Deleted(id)'
                /\ BearsTokenFor(last', id) =>
                      /\ ~last'.handled
                      /\ "auth" \notin DOMAIN last'.req
                      /\ last'.res = <<ErrorResponse(401, "UNAUTHORIZED",
                                                     <<"User not found">>)>>
       /\ ("req" \in DOMAIN last' /\ "auth" \in DOMAIN last'.req) =>
             /\ BearsTokenFor(last', last'.req.auth.userId)
             /\ last'.req.auth.userId \in DOMAIN users
             /\ last'.req.auth.user = users[last'.req.auth.userId]
             /\ last'.op \in {"GET /api/users", "DELETE /api/users/:id"} =>
                   (last'.handled <=>
                       users[last'.req.auth.userId].role = "admin")
             /\ (last'.op = "PUT /api/users/:id" /\ users' # users) =>
                   \/ users[last'.req.auth.userId].role = "admin"
                   \/ last'.req.auth.userId = last'.req.params.id
      ]_vars

\* usr_bob was deleted, and a request bearing usr_bob's token was then
\* answered 401 'User not found'
C17_Witness ==
    /\ Deleted(usr_bob)
    /\ BearsTokenFor(last, usr_bob)
    /\ usr_bob \notin DOMAIN last.pre
    /\ last.res = <<ErrorResponse(401, "UNAUTHORIZED", <<"User not found">>)>>

\* usr_bob, a member in the seed data, was made admin and then listed the
\* users with the token he had before
C17_WitnessRole ==
    /\ last.op = "GET /api/users"
    /\ BearsTokenFor(last, usr_bob)
    /\ SeedUsers[usr_bob].role = "member"
    /\ last.pre[usr_bob].role = "admin"
    /\ last.handled
    /\ last.res[1].status = 200

\* usr_bob was made admin and later viewer, and was then answered 403 on
\* listing the users
C17_WitnessDemoted ==
    /\ last.op = "GET /api/users"
    /\ BearsTokenFor(last, usr_bob)
    /\ last.pre[usr_bob].role = "viewer"
    /\ last.res[1].status = 403

\* the projects the last request listed
Listed == last.res[1].body.data

\* C18: GET /api/projects returns exactly the projects whose status is not
\* 'deleted' and that are owned by the requester or, when the requester is
\* an admin, owned by anyone: deleted projects are never listed, archived
\* projects are listed, and a non-admin never sees a project owned by
\* another user.
C18_ListProjects ==
    (last.op = "GET /api/projects" /\ "auth" \in DOMAIN last.req) =>
        /\ projects = last.preProjects
        /\ Len(last.res) = 1
        /\ last.res[1].status = 200
        /\ last.res[1].body.success = TRUE
        /\ \A id \in DOMAIN projects :
              projects[id] \in Listed <=>
                 /\ projects[id].status # "deleted"
                 /\ \/ projects[id].ownerId = last.req.auth.userId
                    \/ RequesterRole = "admin"
        /\ \A p \in Listed :
              /\ p.id \in DOMAIN projects
              /\ p = projects[p.id]
              /\ p.status \in {"active", "archived"}
              /\ RequesterRole # "admin" => p.ownerId = last.req.auth.userId
        /\ RequesterRole = "admin" =>
              \A id \in DOMAIN projects :
                 projects[id].status = "archived" => projects[id] \in Listed

\* the admin usr_alice listed the projects after prj_mobile was deleted:
\* the archived prj_legacy is listed and the deleted prj_mobile is not
C18_Witness ==
    /\ last.op = "GET /api/projects"
    /\ "auth" \in DOMAIN last.req
    /\ last.req.auth.userId = usr_alice
    /\ projects[prj_mobile].status = "deleted"
    /\ projects[prj_legacy].status = "archived"
    /\ projects[prj_legacy] \in Listed
    /\ projects[prj_mobile] \notin Listed
    /\ projects[prj_website] \in Listed

\* the member usr_bob listed the projects and saw prj_mobile only
C18_WitnessOwn ==
    /\ last.op = "GET /api/projects"
    /\ "auth" \in DOMAIN last.req
    /\ last.req.auth.userId = usr_bob
    /\ Listed = {projects[prj_mobile]}
    /\ Cardinality(DOMAIN projects) >= 4

\* the last request was a DELETE /api/projects/:id answered with success
ProjectDeleted ==
    /\ last.op = "DELETE /api/projects/:id"
    /\ last.handled
    /\ last.res[1].status = 200

\* C19: deleting a project is a soft delete: after a successful DELETE
\* /api/projects/:id the project is still in the store under the same id
\* with status 'deleted', its name, description, ownerId and createdAt are
\* unchanged, and no other project is modified.
C19_SoftDelete ==
    ProjectDeleted =>
        /\ last.req.params.id \in DOMAIN last.preProjects
        /\ DOMAIN projects = DOMAIN last.preProjects
        /\ projects[last.req.params.id].status = "deleted"
        /\ \A f \in {"id", "name", "description", "ownerId", "createdAt"} :
              projects[last.req.params.id][f] =
                 last.preProjects[last.req.params.id][f]
        /\ projects[last.req.params.id].id = last.req.params.id
        /\ \A id \in DOMAIN projects \ {last.req.params.id} :
              projects[id] = last.preProjects[id]
        /\ last.res[1].body = [success |-> TRUE, data |-> [deleted |-> TRUE]]

\* usr_bob deleted his project prj_mobile after it was renamed: it is still
\* in the store, deleted, with the name it had
C19_Witness ==
    /\ ProjectDeleted
    /\ last.req.params.id = prj_mobile
    /\ last.req.auth.userId = usr_bob
    /\ last.preProjects[prj_mobile].status = "active"
    /\ last.preProjects[prj_mobile].name = "Renamed"
    /\ projects[prj_mobile].status = "deleted"
    /\ projects[prj_mobile].name = "Renamed"
    /\ projects[prj_mobile].ownerId = usr_bob

\* an authenticated GET, PUT or DELETE on /api/projects/:id
ProjectById ==
    /\ last.op \in {"GET /api/projects/:id", "PUT /api/projects/:id",
                    "DELETE /api/projects/:id"}
    /\ "auth" \in DOMAIN last.req

\* C20: a project with status 'deleted' is inaccessible: GET, PUT and DELETE
\* on /api/projects/:id answer 404 NOT_FOUND for it, for every requester,
\* its owner and admins included, with the very response given for an id
\* that is not in the store.
C20_DeletedNotFound ==
    (/\ ProjectById
     /\ \/ last.req.params.id \notin DOMAIN last.preProjects
        \/ last.preProjects[last.req.params.id].status = "deleted") =>
        /\ last.res = <<[status |-> 404,
                         body |-> [success |-> FALSE,
                                   error |-> [code |-> "NOT_FOUND",
                                              message |-> <<"Project not found">>]]]>>
        /\ projects = last.preProjects

\* usr_bob asked for his own project prj_mobile after it was deleted and was
\* answered 404
C20_Witness ==
    /\ ProjectById
    /\ last.op = "GET /api/projects/:id"
    /\ last.req.params.id = prj_mobile
    /\ last.req.auth.userId = usr_bob
    /\ last.preProjects[prj_mobile].ownerId = usr_bob
    /\ last.preProjects[prj_mobile].status = "deleted"
    /\ last.res[1].status = 404

\* the admin usr_alice asked to update the deleted prj_mobile and was
\* answered 404
C20_WitnessAdmin ==
    /\ ProjectById
    /\ last.op = "PUT /api/projects/:id"
    /\ last.req.params.id = prj_mobile
    /\ last.req.auth.userId = usr_alice
    /\ last.preProjects[prj_mobile].status = "deleted"
    /\ last.res[1].status = 404

\* the last request was a POST /api/projects answered 201
ProjectCreated ==
    /\ last.op = "POST /api/projects"
    /\ last.handled
    /\ last.res[1].status = 201

\* C21: a successful POST /api/projects adds exactly one project, whose
\* ownerId is the authenticated requester's id, whose status is 'active',
\* whose description is the empty string when none was supplied, and whose
\* createdAt equals updatedAt; no existing project or user is changed.
C21_CreateProject ==
    ProjectCreated =>
        /\ Cardinality(DOMAIN projects \ DOMAIN last.preProjects) = 1
        /\ DOMAIN last.preProjects \subseteq DOMAIN projects
        /\ \A id \in DOMAIN last.preProjects :
              projects[id] = last.preProjects[id]
        /\ users = last.pre
        /\ \A id \in DOMAIN projects \ DOMAIN last.preProjects :
              /\ projects[id].id = id
              /\ projects[id].ownerId = last.req.auth.userId
              /\ projects[id].status = "active"
              /\ projects[id].name = last.req.body.name
              /\ projects[id].description =
                    IF "description" \in DOMAIN last.req.body
                    THEN last.req.body.description ELSE ""
              /\ projects[id].createdAt = projects[id].updatedAt
              /\ last.res[1].body = [success |-> TRUE, data |-> projects[id]]

\* usr_bob created a project without a description: it is his, active, and
\* its description is empty
C21_Witness ==
    /\ ProjectCreated
    /\ last.req.auth.userId = usr_bob
    /\ last.req.body = [name |-> "Docs"]
    /\ \E id \in DOMAIN projects \ DOMAIN last.preProjects :
          /\ projects[id].ownerId = usr_bob
          /\ projects[id].description = ""
          /\ projects[id].status = "active"

\* the body of the last request carries an email that a user of the store
\* had when the request arrived
EmailTaken ==
    /\ "email" \in DOMAIN last.req.body
    /\ \E k \in DOMAIN last.pre : last.pre[k].email = last.req.body.email

UserDeleted ==
    /\ last.op = "DELETE /api/users/:id"
    /\ last.handled
    /\ last.res[1].status = 200

\* C23: deleting a user does not affect other users: a successful DELETE
\* /api/users/:id removes exactly the entry for :id and leaves every other
\* user record, and every project record, unchanged.
C23_DeleteUserFrame ==
    [][UserDeleted' =>
          /\ last'.req.params.id \in DOMAIN users
          /\ DOMAIN users' = DOMAIN users \ {last'.req.params.id}
          /\ \A k \in DOMAIN users' : users'[k] = users[k]
          /\ projects' = projects]_vars

\* the admin usr_alice deleted usr_bob, who owns prj_mobile: usr_carol and
\* usr_alice are as they were and prj_mobile is still owned by usr_bob
C23_Witness ==
    /\ UserDeleted
    /\ last.req.params.id = usr_bob
    /\ usr_bob \in DOMAIN last.pre
    /\ DOMAIN users = DOMAIN last.pre \ {usr_bob}
    /\ users[usr_carol] = last.pre[usr_carol]
    /\ users[usr_alice] = last.pre[usr_alice]
    /\ projects[prj_mobile].ownerId = usr_bob

\* the body of the last request is one updateProjectSchema rejects
ProjectBodyInvalid ==
    \/ "name" \in DOMAIN last.req.body /\ last.req.body.name = ""
    \/ /\ "status" \in DOMAIN last.req.body
       /\ last.req.body.status \notin {"active", "archived", "deleted"}

\* the :id of the last request names no project, or a deleted one
ProjectMissing ==
    \/ last.req.params.id \notin DOMAIN last.preProjects
    \/ last.preProjects[last.req.params.id].status = "deleted"

\* C24: check ordering.  For PUT /api/projects/:id the existence check (404)
\* precedes the owner-or-admin check (403), which precedes input validation
\* (400): a non-owner non-admin sending an invalid body gets 403 for an
\* existing project and 404 for a missing or deleted one.  For DELETE
\* /api/users/:id the 'manage:users' check (403) precedes the existence
\* check (404): a non-admin gets 403 whether or not the target exists.
C24_CheckOrdering ==
    /\ (last.op = "PUT /api/projects/:id" /\ "auth" \in DOMAIN last.req) =>
          /\ Len(last.res) = 1
          /\ last.res[1].status =
                IF ProjectMissing THEN 404
                ELSE IF ~OwnerOrAdmin THEN 403
                ELSE IF ProjectBodyInvalid THEN 400
                ELSE 200
    /\ (last.op = "DELETE /api/users/:id" /\ "auth" \in DOMAIN last.req) =>
          /\ Len(last.res) = 1
          /\ last.res[1].status =
                IF RequesterRole # "admin" THEN 403
                ELSE IF last.req.params.id \notin DOMAIN last.pre THEN 404
                ELSE IF last.req.params.id = last.req.auth.userId THEN 403
                ELSE 200
          /\ RequesterRole # "admin" => ~last.handled

\* the viewer usr_carol sent an invalid body to usr_bob's project prj_mobile
\* and was answered 403
C24_Witness ==
    /\ last.op = "PUT /api/projects/:id"
    /\ "auth" \in DOMAIN last.req
    /\ last.req.auth.userId = usr_carol
    /\ last.req.params.id = prj_mobile
    /\ ~ProjectMissing
    /\ ProjectBodyInvalid
    /\ last.res[1].status = 403

\* usr_carol sent an invalid body to the deleted prj_mobile and was
\* answered 404
C24_WitnessDeleted ==
    /\ last.op = "PUT /api/projects/:id"
    /\ "auth" \in DOMAIN last.req
    /\ last.req.auth.userId = usr_carol
    /\ last.req.params.id = prj_mobile
    /\ last.preProjects[prj_mobile].status = "deleted"
    /\ ProjectBodyInvalid
    /\ last.res[1].status = 404

\* the member usr_bob asked to delete a user that does not exist and was
\* answered 403
C24_WitnessNoTarget ==
    /\ last.op = "DELETE /api/users/:id"
    /\ "auth" \in DOMAIN last.req
    /\ last.req.auth.userId = usr_bob
    /\ RequesterRole = "member"
    /\ last.req.params.id \notin DOMAIN last.pre
    /\ last.res[1].status = 403

\* requirePermission or requireAdmin was called on its own
MiddlewareCall == last.op \in {"requirePermission", "requireAdmin"}

\* C25: requirePermission(p) and requireAdmin called on a request with no
\* auth context respond 401 UNAUTHORIZED and never call next; requireAdmin
\* on an authenticated request calls next iff the user's role is 'admin'
\* and otherwise responds 403 FORBIDDEN; in every path exactly one of
\* sending a response and calling next happens.
C25_MiddlewareWithoutAuth ==
    MiddlewareCall =>
        /\ "auth" \notin DOMAIN last.req =>
              /\ last.next = 0
              /\ Len(last.res) = 1
              /\ last.res[1].status = 401
              /\ last.res[1].body.success = FALSE
              /\ last.res[1].body.error.code = "UNAUTHORIZED"
        /\ (last.op = "requireAdmin" /\ "auth" \in DOMAIN last.req) =>
              /\ last.next = 1 <=> RequesterRole = "admin"
              /\ RequesterRole # "admin" =>
                    /\ Len(last.res) = 1
                    /\ last.res[1].status = 403
                    /\ last.res[1].body.error.code = "FORBIDDEN"
        /\ (last.op = "requirePermission" /\ "auth" \in DOMAIN last.req) =>
              /\ ~last.thrown
              /\ last.next = 1 <=>
                    last.permission \in PermissionTable[RequesterRole]
        /\ Len(last.res) + last.next = 1
        /\ users = last.pre

\* requireAdmin was called on a request without an Authorization header and
\* answered 401 without calling next
C25_Witness ==
    /\ last.op = "requireAdmin"
    /\ "authorization" \notin DOMAIN last.req
    /\ "auth" \notin DOMAIN last.req
    /\ last.next = 0
    /\ last.res = <<ErrorResponse(401, "UNAUTHORIZED",
                                  <<"Authentication required">>)>>

\* requirePermission('manage:users') was called on a request whose token
\* requireAuth had refused and answered 401 without calling next
C25_WitnessPermission ==
    /\ last.op = "requirePermission"
    /\ last.permission = "manage:users"
    /\ "authorization" \in DOMAIN last.req
    /\ "auth" \notin DOMAIN last.req
    /\ last.next = 0
    /\ last.res[1].status = 401

\* requireAdmin was called on a request of the member usr_bob and answered
\* 403 without calling next
C25_WitnessMember ==
    /\ last.op = "requireAdmin"
    /\ "auth" \in DOMAIN last.req
    /\ last.req.auth.userId = usr_bob
    /\ last.next = 0
    /\ last.res[1].status = 403

\* C26: validateToken never throws for any string input and always returns
\* a well-formed result: valid is true exactly when a context is present,
\* and false exactly when an error message is present, which is one of
\* 'Invalid token format', 'Malformed token' and 'User not found', no
\* context being present then.
C26_WellFormedResult ==
    Validated =>
        /\ "throws" \notin DOMAIN last.result
        /\ "valid" \in DOMAIN last.result
        /\ last.result.valid \in BOOLEAN
        /\ last.result.valid <=> "context" \in DOMAIN last.result
        /\ ~last.result.valid <=> "error" \in DOMAIN last.result
        /\ "error" \in DOMAIN last.result =>
              last.result.error \in {"Invalid token format", "Malformed token",
                                     "User not found"}
        /\ DOMAIN last.result \subseteq {"valid", "context", "error"}
        /\ last.result.valid =>
              DOMAIN last.result.context = {"userId", "user", "sessionId"}

\* validateToken was called on the empty string and returned valid false
\* with the error 'Invalid token format' and no context
C26_Witness ==
    /\ Validated
    /\ last.token = <<>>
    /\ last.result = [valid |-> FALSE, error |-> "Invalid token format"]

\* validateToken was called on the token of usr_alice, who is in the store,
\* and returned valid true with a context and no error
C26_WitnessValid ==
    /\ Validated
    /\ last.token = DEMO_TOKEN
    /\ last.result.valid
    /\ DOMAIN last.result = {"valid", "context"}

\* C27: 'deleted' is a terminal project status: once a project's status is
\* 'deleted', through DELETE or through a PUT that sets the status, no
\* request by any user changes any field of that project again or removes
\* it from the store.
C27_DeletedIsTerminal ==
    [][\A id \in DOMAIN projects :
          projects[id].status = "deleted" =>
             /\ id \in DOMAIN projects'
             /\ projects'[id] = projects[id]]_vars

\* after prj_mobile was deleted its owner usr_bob asked to rename it and
\* was answered 404, the project staying as it was
C27_Witness ==
    /\ last.op = "PUT /api/projects/:id"
    /\ "auth" \in DOMAIN last.req
    /\ last.req.params.id = prj_mobile
    /\ last.req.auth.userId = usr_bob
    /\ last.req.body = [name |-> "Renamed"]
    /\ last.preProjects[prj_mobile].status = "deleted"
    /\ last.preProjects[prj_mobile].name = "Mobile App v2"
    /\ last.res[1].status = 404
    /\ projects[prj_mobile] = last.preProjects[prj_mobile]

\* C28: identity and ownership fields are immutable: no request changes the
\* id, ownerId or createdAt of a project, or the id, email or createdAt of
\* a user, and every store entry's key is the id of the record stored under
\* it; update bodies change only name, description and status of a project
\* and name, role and avatarUrl of a user.
C28_ImmutableFields ==
    [][/\ \A k \in DOMAIN projects \cap DOMAIN projects' :
             /\ projects'[k].id = projects[k].id
             /\ projects'[k].ownerId = projects[k].ownerId
             /\ projects'[k].createdAt = projects[k].createdAt
       /\ \A k \in DOMAIN users \cap DOMAIN users' :
             /\ users'[k].id = users[k].id
             /\ users'[k].email = users[k].email
             /\ users'[k].createdAt = users[k].createdAt
       /\ \A k \in DOMAIN projects' :
             /\ projects'[k].id = k
             /\ DOMAIN projects'[k] = {"id", "name", "description", "ownerId",
                                       "status", "createdAt", "updatedAt"}
       /\ \A k \in DOMAIN users' : users'[k].id = k
      ]_vars

\* the admin usr_alice sent usr_bob a new name together with an id, an email
\* and a createdAt: the name was stored and the other three were not
C28_Witness ==
    /\ last.op = "PUT /api/users/:id"
    /\ last.req.params.id = usr_bob
    /\ "email" \in DOMAIN last.req.body
    /\ "id" \in DOMAIN last.req.body
    /\ last.res[1].status = 200
    /\ users[usr_bob].name = "Renamed"
    /\ users[usr_bob].id = usr_bob
    /\ users[usr_bob].email = "bob@acme.com"
    /\ users[usr_bob].createdAt = SeedUsers[usr_bob].createdAt

\* usr_bob sent his project prj_mobile a new name together with an ownerId:
\* the name was stored and the owner is still usr_bob
C28_WitnessProject ==
    /\ last.op = "PUT /api/projects/:id"
    /\ last.req.params.id = prj_mobile
    /\ "ownerId" \in DOMAIN last.req.body
    /\ last.res[1].status = 200
    /\ projects[prj_mobile].name = "Renamed"
    /\ projects[prj_mobile].ownerId = usr_bob
    /\ projects[prj_mobile].id = prj_mobile

\* the record r is that of a request authenticated as a user whose role was
\* admin when the request arrived
ByAdmin(r) ==
    /\ "req" \in DOMAIN r
    /\ "auth" \in DOMAIN r.req
    /\ r.pre[r.req.auth.userId].role = "admin"

\* C29: no privilege escalation without an admin: a request that is
\* unauthenticated, or authenticated as a user whose role at that time is
\* not admin, leaves the set of users and the role of every user unchanged,
\* and every project it creates or modifies is owned by the requester.
C29_NoEscalationWithoutAdmin ==
    [][~ByAdmin(last') =>
          /\ DOMAIN users' = DOMAIN users
          /\ \A k \in DOMAIN users : users'[k].role = users[k].role
          /\ \A k \in DOMAIN projects' :
                (k \notin DOMAIN projects \/ projects'[k] # projects[k]) =>
                   /\ "auth" \in DOMAIN last'.req
                   /\ projects'[k].ownerId = last'.req.auth.userId
          /\ DOMAIN projects \subseteq DOMAIN projects'
      ]_vars

\* the member usr_bob renamed his own project prj_mobile; no user was added,
\* removed or given another role
C29_Witness ==
    /\ last.op = "PUT /api/projects/:id"
    /\ "auth" \in DOMAIN last.req
    /\ last.req.auth.userId = usr_bob
    /\ last.pre[usr_bob].role = "member"
    /\ last.req.params.id = prj_mobile
    /\ last.res[1].status = 200
    /\ projects[prj_mobile] # last.preProjects[prj_mobile]
    /\ projects[prj_mobile].ownerId = usr_bob
    /\ users = last.pre

\* the member usr_bob asked to delete usr_carol and was refused
C29_WitnessRefused ==
    /\ last.op = "DELETE /api/users/:id"
    /\ "auth" \in DOMAIN last.req
    /\ last.req.auth.userId = usr_bob
    /\ last.pre[usr_bob].role = "member"
    /\ last.req.params.id = usr_carol
    /\ last.res[1].status = 403
    /\ users = last.pre

\* the token for the id of token t with the nonce n
WithNonce(t, n) == TOKEN_PREFIX \o IdPart(t) \o <<"_">> \o n

\* C30: the session nonce carries no authority and tokens are never revoked
\* or expired: two tokens with the same id and any two non-empty nonces
\* without "_" get the same outcome and the same user from validateToken
\* against the same store; and a request bearing a well-formed token is
\* authenticated whenever the user with that id is in the store, whatever
\* happened before.
C30_NonceCarriesNoAuthority ==
    /\ (Validated /\ WellFormed(last.token)) =>
          \A n \in Nonces :
             /\ validateToken(WithNonce(last.token, n), users).valid
                   = last.result.valid
             /\ last.result.valid =>
                   /\ validateToken(WithNonce(last.token, n), users).context.user
                         = last.result.context.user
                   /\ validateToken(WithNonce(last.token, n), users).context.userId
                         = last.result.context.userId
             /\ ~last.result.valid =>
                   validateToken(WithNonce(last.token, n), users).error
                      = last.result.error
    /\ \A id \in UserIds :
          (BearsTokenFor(last, id) /\ id \in DOMAIN last.pre) =>
             /\ "auth" \in DOMAIN last.req
             /\ last.req.auth.userId = id
             /\ last.req.auth.user = last.pre[id]
             /\ last.req.auth.sessionId =
                   NoncePart(TokenOf(last.req.authorization))

\* a request bearing a token of usr_alice with the nonce 'x', which no login
\* produced, was authenticated as usr_alice
C30_Witness ==
    /\ last.op = "GET /api/users/me"
    /\ BearsTokenFor(last, usr_alice)
    /\ NoncePart(TokenOf(last.req.authorization)) = <<"x">>
    /\ last.handled
    /\ last.res[1].status = 200
    /\ last.req.auth.userId = usr_alice

\* validateToken accepted a token of usr_alice with a nonce other than
\* 'demo123'
C30_WitnessValidate ==
    /\ Validated
    /\ WellFormed(last.token)
    /\ IdPart(last.token) = usr_alice
    /\ NoncePart(last.token) # demo123
    /\ last.result.valid
    /\ last.result.context.user = users[usr_alice]

=============================================================================
